---- MODULE Spec2Model ----
(***************************************************************************)
(* Push-to-talk of for-desktop.                                            *)
(*                                                                         *)
(*   Spec   the before-input-event module, src/src/native/pushToTalk.ts    *)
(*   SpecW  the multi-strategy orchestrator, src/src/native/window.ts      *)
(*                                                                         *)
(* A JavaScript string is a sequence of one-character strings, so that     *)
(* toLowerCase, split and trim are computed and not assumed.               *)
(***************************************************************************)
EXTENDS Integers, Sequences, FiniteSets, TLC

\* ------------------------------------------------------------------ bounds
\* registerPushToTalkHotkey calls of window.ts that may be in flight at once
MaxCalls == 1
\* live key listeners at a time (a listener that is never killed stays live)
MaxListeners == 2
\* message handlers attached to session buses at a time
MaxHandlers == 2
\* an accelerator string has at most this many tokens
MaxTokens == 3
\* at most this many messages are on their way on an IPC channel
MaxInFlight == 2
\* the renderer subscribes at most this many callbacks
MaxCallbacks == 2

\* --------------------------------------------------------------- constants
GLOBAL_HOLD_TIMEOUT_MS == 400
MIN_HOLD_DURATION_MS == 600
\* the slack added to the minimum-hold extension
EXTEND_SLACK_MS == 100
\* resolution of the clock
TickMs == 100
\* Date.now(). Times are kept relative to the present instant: when time
\* passes (Tick) every stored time stamp and timer deadline moves TickMs into
\* the past instead of the clock moving forward. The code reads a time stamp
\* only through Date.now() - stamp, which it compares with
\* MIN_HOLD_DURATION_MS, so a stamp that old or older stands for all older ones.
now == 0
Stale == now - MIN_HOLD_DURATION_MS
Age(stamp) == IF stamp - TickMs < Stale THEN Stale ELSE stamp - TickMs

\* ----------------------------------------------------------------- strings
UpperCase == <<"A","B","C","D","E","F","G","H","I","J","K","L","M",
               "N","O","P","Q","R","S","T","U","V","W","X","Y","Z">>
LowerCase == <<"a","b","c","d","e","f","g","h","i","j","k","l","m",
               "n","o","p","q","r","s","t","u","v","w","x","y","z">>

\* the lower-case letter of each upper-case letter
LowerOf == [c \in {UpperCase[i] : i \in 1..Len(UpperCase)} |->
              LowerCase[CHOOSE i \in 1..Len(UpperCase) : UpperCase[i] = c]]

LowerChar(c) == IF c \in DOMAIN LowerOf THEN LowerOf[c] ELSE c

toLowerCase(str) == [i \in 1..Len(str) |-> LowerChar(str[i])]

IsSpace(c) == c = " "

RECURSIVE trimStart(_)
trimStart(str) ==
  IF str # <<>> /\ IsSpace(Head(str)) THEN trimStart(Tail(str)) ELSE str

RECURSIVE trimEnd(_)
trimEnd(str) ==
  IF str # <<>> /\ IsSpace(str[Len(str)])
  THEN trimEnd(SubSeq(str, 1, Len(str) - 1)) ELSE str

trim(str) == trimEnd(trimStart(str))

\* str.split(separators): the pieces between separators, empty pieces included
RECURSIVE splitFrom(_, _, _, _)
splitFrom(str, i, cur, separators) ==
  IF i > Len(str) THEN <<cur>>
  ELSE IF str[i] \in separators
       THEN <<cur>> \o splitFrom(str, i + 1, <<>>, separators)
       ELSE splitFrom(str, i + 1, Append(cur, str[i]), separators)

split(str, separators) == splitFrom(str, 1, <<>>, separators)

includes(parts, tok) == \E i \in 1..Len(parts) : parts[i] = tok

S_ctrl == <<"c","t","r","l">>
S_control == <<"c","o","n","t","r","o","l">>
S_shift == <<"s","h","i","f","t">>
S_alt == <<"a","l","t">>
S_meta == <<"m","e","t","a">>
S_cmd == <<"c","m","d">>
S_command == <<"c","o","m","m","a","n","d">>

NoModifiers == [ctrl |-> FALSE, shift |-> FALSE, alt |-> FALSE, meta |-> FALSE]

\* parseAccelerator of pushToTalk.ts splits on /[+-]/, that of window.ts on "+"
parseWith(accelerator, separators) ==
  LET all == split(toLowerCase(accelerator), separators)
      trimmed == [i \in 1..Len(all) |-> trim(all[i])]
      \* parts.pop() || ""
      key == trimmed[Len(trimmed)]
      parts == SubSeq(trimmed, 1, Len(trimmed) - 1)
  IN [key |-> key,
      ctrl |-> includes(parts, S_ctrl) \/ includes(parts, S_control),
      shift |-> includes(parts, S_shift),
      alt |-> includes(parts, S_alt),
      meta |-> includes(parts, S_meta) \/ includes(parts, S_cmd)
                 \/ includes(parts, S_command)]

parseAccelerator(accelerator) == parseWith(accelerator, {"+", "-"})

w_parseAccelerator(accelerator) == parseWith(accelerator, {"+"})

\* the accelerators the configuration is set to
AccShiftV == <<"S","h","i","f","t","+","V">>
AccV == <<"V">>
AccShiftSpace == <<"S","h","i","f","t","+","S","p","a","c","e">>
EmptyString == <<>>
Keybinds == {AccShiftV, AccV}

\* config.pushToTalkKeybind || "Shift+Space"
AcceleratorOf(cfg) ==
  IF cfg.pushToTalkKeybind = EmptyString THEN AccShiftSpace
  ELSE cfg.pushToTalkKeybind

Modes == {"hold", "toggle"}

\* -------------------------------------------------------------------- state
\* null where a string is expected (no JavaScript string equals it), and
\* null where a timer handle is expected
Null == <<"null">>
NullTimeout == [kind |-> "null", due |-> 0]

VARIABLES
  \* src/src/native/pushToTalk.ts
  isPttActive, registeredAccelerator, currentKeybind, keybindModifiers,
  holdModeTimeout, lastActivationTime,
  \* what the module has installed outside itself
  listenerOn,        \* handleBeforeInputEvent is attached to webContents
  shortcuts,         \* accelerators registered with Electron's globalShortcut
  timers,            \* pending setTimeout handles
  manualOn,          \* the push-to-talk-manual handler is installed
  \* the environment
  config, windowAlive, held,
  \* what the last handler did, in order
  trace,
  \* the last "push-to-talk" value the renderer was sent (inactive at start)
  lastSent,
  \* when isPttActive last turned true
  activeSince,
  \* isPttActive was turned true by a key-down handed to handleBeforeInputEvent
  \* in hold mode, and since then only key events were handled and time passed
  keyHold,
  \* config.pushToTalkMode as it was when registerPushToTalkHotkey last bound
  \* the accelerator ("none": nothing is bound); the code keeps no such record
  boundMode

VARIABLES
  \* src/src/native/window.ts (w_: the name is also one of pushToTalk.ts)
  w_isPttActive, w_registeredAccelerator, isWayland, portalAvailable,
  dbusBus, dbusMessageHandler, globalKeyListener,
  \* what the orchestrator has installed outside itself
  keyListeners,      \* the low-level key listeners that are alive
  w_shortcuts,       \* accelerators registered with Electron's globalShortcut
  busHandlers,       \* "message" handlers attached to the session bus
  bindRequests,      \* BindShortcuts calls the portal has not answered yet
  w_manualOn,        \* the push-to-talk-manual handler is installed
  \* the registerPushToTalkHotkey calls suspended at an await
  calls,
  \* the environment
  platform, waylandEnv

VARIABLES
  \* src/src/world/pushToTalk.ts, the bridge in the renderer of the window
  currentPttState,
  \* the subscribed callbacks, each with the value it was last called with
  stateChangeCallbacks,
  \* the messages on their way, oldest first: "push-to-talk" from the main
  \* process to the renderer, "push-to-talk-manual" from the renderer to it
  toRenderer, toMain

rvars == <<currentPttState, stateChangeCallbacks, toRenderer, toMain>>

wvars == <<w_isPttActive, w_registeredAccelerator, isWayland, portalAvailable,
           dbusBus, dbusMessageHandler, globalKeyListener,
           keyListeners, w_shortcuts, busHandlers, bindRequests, w_manualOn,
           calls, platform, waylandEnv>>

pvars == <<isPttActive, registeredAccelerator, currentKeybind, keybindModifiers,
           holdModeTimeout, lastActivationTime,
           listenerOn, shortcuts, timers, manualOn,
           config, windowAlive, held,
           trace, lastSent, activeSince, keyHold, boundMode>>

vars == <<pvars, wvars, rvars>>

\* the module's variables as one record, so that a handler is a function of it
Cur ==
  [isPttActive |-> isPttActive, registeredAccelerator |-> registeredAccelerator,
   currentKeybind |-> currentKeybind, keybindModifiers |-> keybindModifiers,
   holdModeTimeout |-> holdModeTimeout,
   lastActivationTime |-> lastActivationTime,
   listenerOn |-> listenerOn, shortcuts |-> shortcuts, timers |-> timers,
   manualOn |-> manualOn, boundMode |-> boundMode, trace |-> <<>>]

NoHandler == "none"
Effect(op, ch, arg) == [op |-> op, ch |-> ch, arg |-> arg]
Emit(s, op, ch, arg) == [s EXCEPT !.trace = Append(@, Effect(op, ch, arg))]

\* the arguments of the effects op of a trace on channel ch, in order
RECURSIVE Args(_, _, _)
Args(tr, op, ch) ==
  IF tr = <<>> THEN <<>>
  ELSE IF Head(tr).op = op /\ Head(tr).ch = ch
       THEN <<Head(tr).arg>> \o Args(Tail(tr), op, ch)
       ELSE Args(Tail(tr), op, ch)

\* the "push-to-talk" values a trace sent to the renderer, in order
SentStates(tr) == Args(tr, "send", "push-to-talk")
\* the values sendPttState was called with
EmittedStates(tr) == Args(tr, "sendPttState", "push-to-talk")

\* the positions of a trace where op happened on channel ch
Positions(tr, op, ch) == {i \in 1..Len(tr) : tr[i].op = op /\ tr[i].ch = ch}

\* ------------------------------------------------- src/src/native/pushToTalk.ts
\* "sendPttState" is the call, "send" the webContents.send it makes when the
\* window and its webContents are not destroyed
\* sendPttState without its test of the window
sendPttState_unchecked(s, active) ==
  Emit(Emit(s, "sendPttState", "push-to-talk", active),
       "send", "push-to-talk", active)

sendPttState(s, active) ==
  LET s1 == Emit(s, "sendPttState", "push-to-talk", active)
  IN IF windowAlive THEN Emit(s1, "send", "push-to-talk", active) ELSE s1

clearTimeout(s, handle) == [s EXCEPT !.timers = @ \ {handle}]

\* deactivatePtt without its isPttActive test
deactivatePtt_unguarded(s) ==
  LET s1 == sendPttState([s EXCEPT !.isPttActive = FALSE], FALSE)
  IN IF s1.holdModeTimeout # NullTimeout
     THEN [clearTimeout(s1, s1.holdModeTimeout) EXCEPT !.holdModeTimeout = NullTimeout]
     ELSE s1

\* deactivatePtt that clears its timer only when PTT was active
deactivatePtt_clearsIfActive(s) ==
  IF s.isPttActive
  THEN LET s1 == sendPttState([s EXCEPT !.isPttActive = FALSE], FALSE)
       IN IF s1.holdModeTimeout # NullTimeout
          THEN [clearTimeout(s1, s1.holdModeTimeout)
                  EXCEPT !.holdModeTimeout = NullTimeout]
          ELSE s1
  ELSE s

\* deactivatePtt that forgets its timer without clearing it
deactivatePtt_forgetsTimer(s) ==
  LET s1 == IF s.isPttActive
            THEN sendPttState([s EXCEPT !.isPttActive = FALSE], FALSE)
            ELSE s
  IN [s1 EXCEPT !.holdModeTimeout = NullTimeout]

deactivatePtt(s) ==
  LET s1 == IF s.isPttActive
            THEN sendPttState([s EXCEPT !.isPttActive = FALSE], FALSE)
            ELSE s
  IN IF s1.holdModeTimeout # NullTimeout
     THEN [clearTimeout(s1, s1.holdModeTimeout) EXCEPT !.holdModeTimeout = NullTimeout]
     ELSE s1

\* activatePtt without its isPttActive test
activatePtt_unguarded(s) ==
  sendPttState([s EXCEPT !.isPttActive = TRUE], TRUE)

activatePtt(s) ==
  IF ~s.isPttActive
  THEN sendPttState([s EXCEPT !.isPttActive = TRUE], TRUE)
  ELSE s

\* matchesKeybind that asks only for the modifiers of the keybind to be down,
\* and tolerates any other
matchesKeybind_loose(s, input) ==
  /\ toLowerCase(input.key) = toLowerCase(s.currentKeybind)
  /\ s.keybindModifiers.ctrl => input.control
  /\ s.keybindModifiers.shift => input.shift
  /\ s.keybindModifiers.alt => input.alt
  /\ s.keybindModifiers.meta => input.meta

matchesKeybind(s, input) ==
  /\ toLowerCase(input.key) = toLowerCase(s.currentKeybind)
  /\ input.control = s.keybindModifiers.ctrl
  /\ input.shift = s.keybindModifiers.shift
  /\ input.alt = s.keybindModifiers.alt
  /\ input.meta = s.keybindModifiers.meta

preventDefault(s) == Emit(s, "preventDefault", "before-input-event", Null)

\* handleBeforeInputEvent that consumes every event before it looks at it
handleBeforeInputEvent_consumesAll(s, input) ==
  LET s0 == preventDefault(s)
  IN IF ~matchesKeybind(s0, input) THEN s0
     ELSE IF config.pushToTalkMode = "hold"
     THEN IF input.type = "keyDown" THEN activatePtt(s0)
          ELSE IF input.type = "keyUp" THEN deactivatePtt(s0)
          ELSE s0
     ELSE IF input.type = "keyDown"
          THEN sendPttState([s0 EXCEPT !.isPttActive = ~@], ~s0.isPttActive)
          ELSE s0

\* handleBeforeInputEvent that also consumes the matching key-up of toggle mode
handleBeforeInputEvent_consumesToggleUp(s, input) ==
  IF ~matchesKeybind(s, input) THEN s
  ELSE IF config.pushToTalkMode = "hold"
  THEN IF input.type = "keyDown" THEN activatePtt(preventDefault(s))
       ELSE IF input.type = "keyUp" THEN deactivatePtt(preventDefault(s))
       ELSE s
  ELSE LET s1 == preventDefault(s)
       IN IF input.type = "keyDown"
          THEN sendPttState([s1 EXCEPT !.isPttActive = ~@], ~s1.isPttActive)
          ELSE s1

\* handleBeforeInputEvent whose toggle branch only ever switches PTT on
handleBeforeInputEvent_toggleOnce(s, input) ==
  IF ~matchesKeybind(s, input) THEN s
  ELSE IF config.pushToTalkMode = "hold"
  THEN IF input.type = "keyDown" THEN activatePtt(preventDefault(s))
       ELSE IF input.type = "keyUp" THEN deactivatePtt(preventDefault(s))
       ELSE s
  ELSE IF input.type = "keyDown" THEN activatePtt(preventDefault(s))
       ELSE s

handleBeforeInputEvent(s, input) ==
  IF ~matchesKeybind(s, input) THEN s
  ELSE IF config.pushToTalkMode = "hold"
  THEN IF input.type = "keyDown" THEN activatePtt(preventDefault(s))
       ELSE IF input.type = "keyUp" THEN deactivatePtt(preventDefault(s))
       ELSE s
  ELSE IF input.type = "keyDown"
       THEN LET s1 == preventDefault(s)
            IN sendPttState([s1 EXCEPT !.isPttActive = ~@], ~s1.isPttActive)
       ELSE s

Timer(kind, due) == [kind |-> kind, due |-> due]

\* holdModeTimeout = setTimeout(callback, delay)
setHoldTimeout(s, kind, delay) ==
  [s EXCEPT !.timers = @ \cup {Timer(kind, now + delay)},
            !.holdModeTimeout = Timer(kind, now + delay)]

\* the hold branch of the callback without its clearTimeout: the timer of
\* the trigger before stays pending
globalHotkeyCallback_noReset(s) ==
  IF config.pushToTalkMode = "hold"
  THEN LET s2 == IF ~s.isPttActive
                 THEN activatePtt([s EXCEPT !.lastActivationTime = now])
                 ELSE s
       IN setHoldTimeout(s2, "rearm", GLOBAL_HOLD_TIMEOUT_MS)
  ELSE sendPttState([s EXCEPT !.isPttActive = ~@], ~s.isPttActive)

\* the callback registerGlobalHotkey hands to globalShortcut.register
\* (lastGlobalTriggerTime is written here and read only for the log line, so
\* it is not part of the state)
globalHotkeyCallback(s) ==
  LET s1 == s
  IN IF config.pushToTalkMode = "hold"
     THEN LET s2 == IF ~s1.isPttActive
                    THEN activatePtt([s1 EXCEPT !.lastActivationTime = now])
                    ELSE s1
              s3 == IF s2.holdModeTimeout # NullTimeout
                    THEN clearTimeout(s2, s2.holdModeTimeout)
                    ELSE s2
          IN setHoldTimeout(s3, "rearm", GLOBAL_HOLD_TIMEOUT_MS)
     ELSE sendPttState([s1 EXCEPT !.isPttActive = ~@], ~s1.isPttActive)

\* the callback of the GLOBAL_HOLD_TIMEOUT_MS timer without its extension: a
\* hold that is too short yet is left alone
holdTimeoutCallback_noExtension(s) ==
  LET holdDuration == now - s.lastActivationTime
  IN IF holdDuration >= MIN_HOLD_DURATION_MS THEN deactivatePtt(s) ELSE s

\* the callback of the GLOBAL_HOLD_TIMEOUT_MS timer
holdTimeoutCallback(s) ==
  LET holdDuration == now - s.lastActivationTime
  IN IF holdDuration >= MIN_HOLD_DURATION_MS
     THEN deactivatePtt(s)
     ELSE LET s1 == IF s.holdModeTimeout # NullTimeout
                    THEN clearTimeout(s, s.holdModeTimeout)
                    ELSE s
          IN setHoldTimeout(s1, "extended",
                            MIN_HOLD_DURATION_MS - holdDuration + EXTEND_SLACK_MS)

\* the callback of the extension timer
extendedTimeoutCallback(s) == deactivatePtt(s)

globalShortcutUnregister(s, accelerator) ==
  Emit([s EXCEPT !.shortcuts = @ \ {accelerator}],
       "unregister", "globalShortcut", accelerator)

\* success: what globalShortcut.register returns (FALSE also stands for a throw)
registerGlobalHotkey(s, accelerator, success) ==
  LET s1 == IF s.registeredAccelerator # Null
            THEN globalShortcutUnregister(s, s.registeredAccelerator)
            ELSE s
  IN IF success
     THEN Emit([s1 EXCEPT !.shortcuts = @ \cup {accelerator},
                          !.registeredAccelerator = accelerator],
               "register", "globalShortcut", accelerator)
     ELSE s1

\* unregisterPushToTalkHotkey releasing the listener and the shortcut before
\* it deactivates
unregisterPushToTalkHotkey_releaseFirst(s) ==
  LET s2 == IF windowAlive
            THEN Emit([s EXCEPT !.listenerOn = FALSE],
                      "off", "before-input-event", Null)
            ELSE s
      s3 == IF s2.registeredAccelerator # Null
            THEN [globalShortcutUnregister(s2, s2.registeredAccelerator)
                    EXCEPT !.registeredAccelerator = Null]
            ELSE s2
  IN deactivatePtt(Emit([s3 EXCEPT !.shortcuts = {}, !.boundMode = "none"],
                        "unregisterAll", "globalShortcut", Null))

\* unregisterPushToTalkHotkey that reports {active:false} whether or not PTT
\* was active
unregisterPushToTalkHotkey_alwaysReports(s) ==
  LET s1 == deactivatePtt_unguarded(s)
      s2 == IF windowAlive
            THEN Emit([s1 EXCEPT !.listenerOn = FALSE],
                      "off", "before-input-event", Null)
            ELSE s1
      s3 == IF s2.registeredAccelerator # Null
            THEN [globalShortcutUnregister(s2, s2.registeredAccelerator)
                    EXCEPT !.registeredAccelerator = Null]
            ELSE s2
  IN Emit([s3 EXCEPT !.shortcuts = {}, !.boundMode = "none"],
          "unregisterAll", "globalShortcut", Null)

unregisterPushToTalkHotkey(s) ==
  LET s1 == deactivatePtt(s)
      s2 == IF windowAlive
            THEN Emit([s1 EXCEPT !.listenerOn = FALSE],
                      "off", "before-input-event", Null)
            ELSE s1
      s3 == IF s2.registeredAccelerator # Null
            THEN [globalShortcutUnregister(s2, s2.registeredAccelerator)
                    EXCEPT !.registeredAccelerator = Null]
            ELSE s2
  IN Emit([s3 EXCEPT !.shortcuts = {}, !.boundMode = "none"],
          "unregisterAll", "globalShortcut", Null)

\* registerPushToTalkHotkey without its test of config.pushToTalk
registerPushToTalkHotkey_ignoresDisabled(s, success) ==
  LET accelerator == AcceleratorOf(config) IN
    IF s.registeredAccelerator = accelerator THEN s
    ELSE LET s1 == unregisterPushToTalkHotkey(s)
             parsed == parseAccelerator(accelerator)
             s2 == [s1 EXCEPT !.boundMode = config.pushToTalkMode,
                              !.currentKeybind = parsed.key,
                              !.keybindModifiers =
                                 [ctrl |-> parsed.ctrl, shift |-> parsed.shift,
                                  alt |-> parsed.alt, meta |-> parsed.meta]]
             s3 == IF windowAlive
                   THEN Emit(Emit([s2 EXCEPT !.listenerOn = TRUE],
                                  "off", "before-input-event", Null),
                             "on", "before-input-event", Null)
                   ELSE s2
             s4 == registerGlobalHotkey(s3, accelerator, success)
         IN sendPttState([s4 EXCEPT !.isPttActive = FALSE], FALSE)

registerPushToTalkHotkey(s, success) ==
  IF ~config.pushToTalk THEN unregisterPushToTalkHotkey(s)
  ELSE LET accelerator == AcceleratorOf(config) IN
    IF s.registeredAccelerator = accelerator THEN s
    ELSE LET s1 == unregisterPushToTalkHotkey(s)
             parsed == parseAccelerator(accelerator)
             s2 == [s1 EXCEPT !.boundMode = config.pushToTalkMode,
                              !.currentKeybind = parsed.key,
                              !.keybindModifiers =
                                 [ctrl |-> parsed.ctrl, shift |-> parsed.shift,
                                  alt |-> parsed.alt, meta |-> parsed.meta]]
             s3 == IF windowAlive
                   THEN Emit(Emit([s2 EXCEPT !.listenerOn = TRUE],
                                  "off", "before-input-event", Null),
                             "on", "before-input-event", Null)
                   ELSE s2
             s4 == registerGlobalHotkey(s3, accelerator, success)
         IN sendPttState([s4 EXCEPT !.isPttActive = FALSE], FALSE)

\* the push-to-talk-manual handler that takes the value without reporting it
manualHandler_silent(s, data) == [s EXCEPT !.isPttActive = data.active]

\* the push-to-talk-manual handler installed by initPushToTalk
manualHandler(s, data) ==
  sendPttState([s EXCEPT !.isPttActive = data.active], data.active)

initPushToTalk(s, success) ==
  LET s1 == [s EXCEPT !.manualOn = TRUE]
  IN IF config.pushToTalk THEN registerPushToTalkHotkey(s1, success) ELSE s1

cleanupPushToTalk(s) == unregisterPushToTalkHotkey(s)

getPushToTalkState(s) == s.isPttActive

\* --------------------------------------------------------------- environment
Configs ==
  [pushToTalk : BOOLEAN, pushToTalkKeybind : Keybinds, pushToTalkMode : Modes]

\* what a renderer can send on push-to-talk-manual, by what the handlers read
\* of it: {active: true}, {active: false}, null, a string, an object without
\* "active", and an object whose "active" is a number
ManualPayloads ==
  {[truthy |-> TRUE, type |-> "object", hasActive |-> TRUE,
    activeType |-> "boolean", active |-> a] : a \in BOOLEAN}
  \cup {[truthy |-> FALSE, type |-> "object", hasActive |-> FALSE,
         activeType |-> "undefined", active |-> FALSE],
        [truthy |-> TRUE, type |-> "string", hasActive |-> FALSE,
         activeType |-> "undefined", active |-> FALSE],
        [truthy |-> TRUE, type |-> "object", hasActive |-> FALSE,
         activeType |-> "undefined", active |-> FALSE],
        [truthy |-> TRUE, type |-> "object", hasActive |-> TRUE,
         activeType |-> "number", active |-> TRUE]}

\* the physical keys of the keyboard
PhysKeys == {"Shift", "V"}

KeyShift == <<"S","h","i","f","t">>
KeyControl == <<"C","o","n","t","r","o","l">>

\* every Electron.Input over the modelled keys: both event types and all
\* sixteen settings of the four modifier flags
AnyInputs ==
  [key : {<<"v">>, <<"V">>, KeyShift, KeyControl}, type : {"keyDown", "keyUp"},
   control : BOOLEAN, shift : BOOLEAN, alt : BOOLEAN, meta : BOOLEAN]

\* the Electron.Input of a key event: `down` are the keys held once the event
\* has happened, so a modifier's own key-up reports the modifier released
InputOf(k, type, down) ==
  [key |-> IF k = "Shift" THEN KeyShift
           ELSE IF k = "Control" THEN KeyControl
           ELSE IF "Shift" \in down THEN <<"V">> ELSE <<"v">>,
   type |-> type,
   control |-> "Control" \in down,
   shift |-> "Shift" \in down,
   alt |-> FALSE,
   meta |-> FALSE]

\* a handler ran from Cur to r (NoHandler: no code of the module ran): what
\* becomes of the module's own variables
RanP(r, name, arg) ==
  /\ isPttActive' = r.isPttActive
  /\ registeredAccelerator' = r.registeredAccelerator
  /\ currentKeybind' = r.currentKeybind
  /\ keybindModifiers' = r.keybindModifiers
  /\ holdModeTimeout' = r.holdModeTimeout
  /\ lastActivationTime' = r.lastActivationTime
  /\ listenerOn' = r.listenerOn
  /\ shortcuts' = r.shortcuts
  /\ timers' = r.timers
  /\ manualOn' = r.manualOn
  /\ boundMode' = r.boundMode
  /\ trace' = IF name = NoHandler THEN <<>>
               ELSE <<Effect("call", name, arg)>> \o r.trace
  /\ lastSent' = LET sent == SentStates(r.trace)
                 IN IF sent = <<>> THEN lastSent ELSE sent[Len(sent)]

\* a handler ran from Cur to r, seen without the renderer
Ran(r, name, arg) == RanP(r, name, arg) /\ UNCHANGED <<wvars, rvars>>

\* a handler ran from Cur to r, and no time passed
\* (the bound variable has the handler evaluated once)
CommitP(r, name, arg) ==
  /\ RanP(r, name, arg)
  /\ activeSince' = IF ~r.isPttActive THEN Stale
                    ELSE IF ~isPttActive THEN now ELSE activeSince
  /\ keyHold' = /\ name = "handleBeforeInputEvent"
                /\ r.isPttActive
                /\ keyHold \/ (~isPttActive /\ config.pushToTalkMode = "hold")

Commit(result, name, arg) == \E r \in {result} :
  CommitP(r, name, arg) /\ UNCHANGED <<wvars, rvars>>

\* the renderer's bridge as its preload script leaves it, nothing on its way
RInit ==
  /\ currentPttState = FALSE
  /\ stateChangeCallbacks = {}
  /\ toRenderer = <<>>
  /\ toMain = <<>>

PInit ==
  /\ isPttActive = FALSE
  /\ registeredAccelerator = Null
  /\ currentKeybind = EmptyString
  /\ keybindModifiers = NoModifiers
  /\ holdModeTimeout = NullTimeout
  \* lastActivationTime = 0: the epoch, long before the module was loaded
  /\ lastActivationTime = Stale
  /\ listenerOn = FALSE
  /\ shortcuts = {}
  /\ timers = {}
  /\ manualOn = FALSE
  /\ config \in Configs
  /\ windowAlive = TRUE
  /\ held = {}
  /\ trace = <<>>
  /\ lastSent = FALSE
  /\ activeSince = Stale
  /\ keyHold = FALSE
  /\ boundMode = "none"

\* a key goes down (or repeats) while the window exists; webContents hands it
\* to the listener, if any
KeyDown ==
  \E k \in PhysKeys :
    /\ windowAlive
    /\ held' = held \cup {k}
    /\ IF listenerOn
       THEN Commit(handleBeforeInputEvent(Cur, InputOf(k, "keyDown", held')),
                   "handleBeforeInputEvent", "keyDown")
       ELSE Commit(Cur, NoHandler, Null)
    /\ UNCHANGED <<config, windowAlive>>

KeyUp ==
  \E k \in held :
    /\ windowAlive
    /\ held' = held \ {k}
    /\ IF listenerOn
       THEN Commit(handleBeforeInputEvent(Cur, InputOf(k, "keyUp", held')),
                   "handleBeforeInputEvent", "keyUp")
       ELSE Commit(Cur, NoHandler, Null)
    /\ UNCHANGED <<config, windowAlive>>

\* the OS reports the registered accelerator (a press or its key repeat)
GlobalTrigger ==
  /\ shortcuts # {}
  /\ Commit(globalHotkeyCallback(Cur), "globalHotkey", Null)
  /\ UNCHANGED <<config, windowAlive, held>>

\* a pending timer whose time has come fires
TimerFire ==
  \E t \in timers :
    /\ t.due <= now
    /\ LET s == [Cur EXCEPT !.timers = @ \ {t}]
       IN Commit(IF t.kind = "rearm" THEN holdTimeoutCallback(s)
                 ELSE extendedTimeoutCallback(s),
                 "timeout", t.kind)
    /\ UNCHANGED <<config, windowAlive, held>>

\* the renderer of the window sends push-to-talk-manual
Manual ==
  \E a \in BOOLEAN :
    /\ manualOn
    /\ windowAlive
    /\ Commit(manualHandler(Cur, [active |-> a]), "push-to-talk-manual", a)
    /\ UNCHANGED <<config, windowAlive, held>>

\* the application calls initPushToTalk at start-up, before anything else
Register ==
  \E success \in BOOLEAN :
    /\ manualOn
    /\ Commit(registerPushToTalkHotkey(Cur, success),
              "registerPushToTalkHotkey", success)
    /\ UNCHANGED <<config, windowAlive, held>>

Unregister ==
  /\ manualOn
  /\ Commit(unregisterPushToTalkHotkey(Cur), "unregisterPushToTalkHotkey", Null)
  /\ UNCHANGED <<config, windowAlive, held>>

InitPtt ==
  \E success \in BOOLEAN :
    /\ ~manualOn
    /\ Commit(initPushToTalk(Cur, success), "initPushToTalk", success)
    /\ UNCHANGED <<config, windowAlive, held>>

Cleanup ==
  /\ manualOn
  /\ Commit(cleanupPushToTalk(Cur), "cleanupPushToTalk", Null)
  /\ UNCHANGED <<config, windowAlive, held>>

\* the renderer of the window changes the configuration
SetConfig ==
  \E c \in Configs :
    /\ windowAlive
    /\ c # config
    /\ config' = c
    /\ Commit(Cur, NoHandler, Null)
    /\ UNCHANGED <<windowAlive, held>>

DestroyWindow ==
  /\ windowAlive
  /\ windowAlive' = FALSE
  /\ Commit(Cur, NoHandler, Null)
  /\ UNCHANGED <<config, held>>

\* a timer handle, TickMs later
Later(t) == IF t = NullTimeout THEN t
            ELSE Timer(t.kind, IF t.due - TickMs < now THEN now ELSE t.due - TickMs)

\* TickMs pass, once every timer that is due has fired
Tick ==
  /\ \A t \in timers : t.due > now
  /\ Ran([Cur EXCEPT !.lastActivationTime = Age(@),
                        !.timers = {Later(t) : t \in @},
                        !.holdModeTimeout = Later(@)],
         NoHandler, Null)
  /\ activeSince' = IF isPttActive THEN Age(activeSince) ELSE Stale
  /\ keyHold' = keyHold
  /\ UNCHANGED <<config, windowAlive, held>>

Next ==
  \/ KeyDown \/ KeyUp \/ GlobalTrigger \/ TimerFire \/ Manual
  \/ Register \/ Unregister \/ InitPtt \/ Cleanup
  \/ SetConfig \/ DestroyWindow \/ Tick


\* the push-to-talk-manual handler under whatever the renderer sends (the type
\* of its parameter is not checked at run time). Reading data.active of null
\* throws; of anything else without a boolean "active" it yields undefined or
\* the non-boolean, which is assigned to isPttActive and handed to
\* sendPttState. isPttActive is kept as the boolean every later read of it
\* coerces it to, and the effect "assign" records the type it really has.
manualHandlerAny(s, data) ==
  IF ~data.truthy
  THEN Emit(s, "throw", "push-to-talk-manual", Null)
  ELSE IF data.hasActive /\ data.activeType = "boolean"
  THEN manualHandler(s, [active |-> data.active])
  ELSE LET type == IF data.hasActive THEN data.activeType ELSE "undefined"
           truth == data.hasActive /\ data.active
       IN sendPttState(Emit([s EXCEPT !.isPttActive = truth],
                            "assign", "isPttActive", type),
                       truth)

\* the renderer of the window sends push-to-talk-manual with any payload
ManualAny ==
  \E data \in ManualPayloads :
    /\ manualOn
    /\ windowAlive
    /\ Commit(manualHandlerAny(Cur, data), "push-to-talk-manual", data)
    /\ UNCHANGED <<config, windowAlive, held>>

\* webContents hands the listener a keyboard input, whatever keys and
\* modifiers it reports; the effect records the input itself
InputEvent ==
  \E input \in AnyInputs :
    /\ windowAlive
    /\ listenerOn
    /\ Commit(handleBeforeInputEvent(Cur, input), "handleBeforeInputEvent", input)
    /\ UNCHANGED <<config, windowAlive, held>>

\* the listener under every input: the keyboard is not followed key by key,
\* and the global shortcut and its timers are left out
NextInput ==
  \/ InputEvent \/ ManualAny \/ Register \/ Unregister \/ InitPtt \/ SetConfig

\* the hold emulation of the global shortcut on its own: triggers, timers and
\* the passing of time, with the listener and the manual override as the
\* inputs that can come in between
NextHold ==
  \/ InitPtt \/ GlobalTrigger \/ TimerFire \/ Tick \/ Manual \/ KeyDown \/ KeyUp

\* ------------------------------------------------------ src/src/native/window.ts
\* registerPushToTalkHotkey of window.ts is async: a call runs until it has to
\* wait (await import, await checkPortalAvailability, await CreateSession),
\* other handlers run meanwhile, and it resumes when the awaited result is there.
Frame0 ==
  [pc |-> "idle", accelerator |-> Null, attempts |-> <<>>,
   local |-> <<>>, sent |-> <<>>]

WCur ==
  [isPttActive |-> w_isPttActive, registeredAccelerator |-> w_registeredAccelerator,
   isWayland |-> isWayland, portalAvailable |-> portalAvailable,
   dbusBus |-> dbusBus, dbusMessageHandler |-> dbusMessageHandler,
   globalKeyListener |-> globalKeyListener,
   keyListeners |-> keyListeners, shortcuts |-> w_shortcuts,
   busHandlers |-> busHandlers, bindRequests |-> bindRequests,
   manualOn |-> w_manualOn, calls |-> calls, trace |-> <<>>]

w_sendPttState(w, active) ==
  LET w1 == Emit(w, "sendPttState", "push-to-talk", active)
  IN IF windowAlive THEN Emit(w1, "send", "push-to-talk", active) ELSE w1

\* sendLocalKeybind, called by registerLocalHotkey for the call c
sendLocalKeybind(w, c, accelerator) ==
  LET w1 == Emit(w, "sendLocalKeybind", "push-to-talk-local", accelerator)
      w2 == [w1 EXCEPT !.calls[c].local = Append(@, accelerator)]
  IN IF windowAlive
     THEN Emit([w2 EXCEPT !.calls[c].sent = Append(@, accelerator)],
               "send", "push-to-talk-local", accelerator)
     ELSE w2

detectWayland == waylandEnv

\* the call c notes how a strategy it tried came out
Attempt(w, c, strategy, outcome) ==
  [w EXCEPT !.calls[c].attempts =
              Append(@, [strategy |-> strategy, outcome |-> outcome])]

\* the call c returns
Return(w, c) ==
  [Emit(w, "return", "registerPushToTalkHotkey", w.calls[c])
     EXCEPT !.calls[c] = Frame0]

\* the call c waits at an await
Await(w, c, pc) == [w EXCEPT !.calls[c].pc = pc]

NoListener == 0

w_unregisterPushToTalkHotkey(w) ==
  LET w1 == IF w.globalKeyListener # NoListener
            THEN [Emit(w, "kill", "globalKeyListener", w.globalKeyListener)
                    EXCEPT !.keyListeners = {l \in @ : l.id # w.globalKeyListener},
                           !.globalKeyListener = NoListener]
            ELSE w
      w2 == IF w1.registeredAccelerator # Null
            THEN LET u == IF ~w1.isWayland \/ ~w1.portalAvailable
                          THEN Emit([w1 EXCEPT !.shortcuts =
                                                 @ \ {w1.registeredAccelerator}],
                                    "unregister", "globalShortcut",
                                    w1.registeredAccelerator)
                          ELSE w1
                 IN w_sendPttState([u EXCEPT !.registeredAccelerator = Null,
                                             !.isPttActive = FALSE], FALSE)
            ELSE w1
      w3 == IF w2.dbusBus /\ w2.dbusMessageHandler
            THEN [Emit(w2, "removeListener", "dbus", Null)
                    EXCEPT !.busHandlers = IF @ > 0 THEN @ - 1 ELSE 0,
                           !.dbusBus = FALSE,
                           !.dbusMessageHandler = FALSE]
            ELSE w2
  IN [w3 EXCEPT !.isWayland = FALSE, !.portalAvailable = FALSE]

registerLocalHotkey(w, c, accelerator) ==
  sendLocalKeybind(Attempt(w, c, "local", "engaged"), c, accelerator)

\* success: what globalShortcut.register returns (FALSE also stands for a throw);
\* the hold branch and the toggle branch register the same toggling callback
registerNativeHotkey(w, accelerator, success) ==
  IF success
  THEN Emit([w EXCEPT !.shortcuts = @ \cup {accelerator},
                      !.registeredAccelerator = accelerator],
            "register", "globalShortcut", accelerator)
  ELSE w

\* registerPushToTalkHotkey from "Use native globalShortcut" on
registerFromNative(w, c, nativeSuccess) ==
  LET accelerator == w.calls[c].accelerator
      w1 == registerNativeHotkey(
              Attempt(w, c, "native", IF nativeSuccess THEN "registered" ELSE "failed"),
              accelerator, nativeSuccess)
  IN IF nativeSuccess THEN Return(w1, c)
     ELSE LET w2 == [w1 EXCEPT !.isWayland = detectWayland]
          IN IF w2.isWayland /\ platform = "linux"
             THEN Await(w2, c, "checkPortalAvailability")
             ELSE Return(registerLocalHotkey(w2, c, accelerator), c)

\* registerPushToTalkHotkey that goes for the key listener in either mode
w_registerPushToTalkHotkey_hookAlways(w, c, nativeSuccess) ==
  IF ~config.pushToTalk THEN Return(w_unregisterPushToTalkHotkey(w), c)
  ELSE LET accelerator == AcceleratorOf(config)
           w0 == [w EXCEPT !.calls[c].accelerator = accelerator]
       IN IF w0.registeredAccelerator = accelerator THEN Return(w0, c)
          ELSE LET w1 == w_unregisterPushToTalkHotkey(w0)
               IN IF platform = "linux"
                  THEN Await(w1, c, "import")
                  ELSE registerFromNative(w1, c, nativeSuccess)

\* registerPushToTalkHotkey up to its first await
w_registerPushToTalkHotkey(w, c, nativeSuccess) ==
  IF ~config.pushToTalk THEN Return(w_unregisterPushToTalkHotkey(w), c)
  ELSE LET accelerator == AcceleratorOf(config)
           w0 == [w EXCEPT !.calls[c].accelerator = accelerator]
       IN IF w0.registeredAccelerator = accelerator THEN Return(w0, c)
          ELSE LET w1 == w_unregisterPushToTalkHotkey(w0)
               IN IF config.pushToTalkMode = "hold" /\ platform = "linux"
                  THEN Await(w1, c, "import")
                  ELSE registerFromNative(w1, c, nativeSuccess)

\* registerGlobalKeyListener that records the accelerator although the import
\* or the constructor threw
registerGlobalKeyListener_claimsOnFailure(w, c, created, id) ==
  LET accelerator == w.calls[c].accelerator
      parsed == w_parseAccelerator(accelerator)
  IN IF created
     THEN [Emit(w, "new", "globalKeyListener", id)
             EXCEPT !.globalKeyListener = id,
                    !.keyListeners = @ \cup {[id |-> id, target |-> parsed,
                                              modifierState |-> NoModifiers]},
                    !.registeredAccelerator = accelerator]
     ELSE [w EXCEPT !.registeredAccelerator = accelerator]

\* registerGlobalKeyListener once the import is settled; created: the import
\* and the constructor did not throw, and the new listener is `id`
registerGlobalKeyListener(w, c, created, id) ==
  LET accelerator == w.calls[c].accelerator
      parsed == w_parseAccelerator(accelerator)
  IN IF created
     THEN [Emit(w, "new", "globalKeyListener", id)
             EXCEPT !.globalKeyListener = id,
                    !.keyListeners = @ \cup {[id |-> id, target |-> parsed,
                                              modifierState |-> NoModifiers]},
                    !.registeredAccelerator = accelerator]
     ELSE w

\* registerPushToTalkHotkey resumed after await registerGlobalKeyListener
afterKeyListener(w, c, created, id, nativeSuccess) ==
  LET w1 == registerGlobalKeyListener(
              Attempt(w, c, "listener", IF created THEN "listening" ELSE "failed"),
              c, created, id)
  IN IF created THEN Return(w1, c)
     ELSE registerFromNative(w1, c, nativeSuccess)

\* registerPushToTalkHotkey resumed after await checkPortalAvailability, up to
\* the await of CreateSession in registerWaylandHotkey
\* (bus: dbus.sessionBus() did not throw)
afterPortalCheck(w, c, available, bus) ==
  LET w1 == [w EXCEPT !.portalAvailable = available]
  IN IF ~available
     THEN Return(registerLocalHotkey(Attempt(w1, c, "portal", "unavailable"),
                                     c, w1.calls[c].accelerator), c)
     ELSE IF bus
     THEN Await([w1 EXCEPT !.dbusBus = TRUE], c, "CreateSession")
     ELSE Return(Attempt(w1, c, "portal", "error"), c)

\* registerWaylandHotkey resumed after CreateSession
afterCreateSession(w0, c, outcome) ==
  LET accelerator == w0.calls[c].accelerator
      w == Attempt(w0, c, "portal", outcome)
  IN IF outcome = "created"
     THEN Return([Emit(Emit(w, "invoke", "BindShortcuts", accelerator),
                       "on", "dbus", Null)
                    EXCEPT !.bindRequests = @ \cup {accelerator},
                           !.dbusMessageHandler = TRUE,
                           !.busHandlers = @ + 1], c)
     ELSE IF outcome = "ServiceUnknown"
     THEN Return(registerLocalHotkey([w EXCEPT !.portalAvailable = FALSE],
                                     c, accelerator), c)
     ELSE Return(w, c)

\* the callback of BindShortcuts
bindShortcutsCallback(w, accelerator, err) ==
  LET w1 == [w EXCEPT !.bindRequests = @ \ {accelerator}]
  IN IF err THEN w1 ELSE [w1 EXCEPT !.registeredAccelerator = accelerator]

\* the callback both branches of registerNativeHotkey register
nativeHotkeyCallback(w) ==
  w_sendPttState([w EXCEPT !.isPttActive = ~@], ~w.isPttActive)

\* dbusMessageHandler
portalMessageHandler(w, member, shortcutId) ==
  IF member = "Activated"
  THEN IF shortcutId = "push-to-talk"
       THEN IF config.pushToTalkMode = "hold"
            THEN w_sendPttState([w EXCEPT !.isPttActive = TRUE], TRUE)
            ELSE w_sendPttState([w EXCEPT !.isPttActive = ~@], ~w.isPttActive)
       ELSE w
  ELSE IF member = "Deactivated"
  THEN IF shortcutId = "push-to-talk" /\ config.pushToTalkMode = "hold"
       THEN w_sendPttState([w EXCEPT !.isPttActive = FALSE], FALSE)
       ELSE w
  ELSE w

\* str.includes(sub)
includesString(str, sub) ==
  \E i \in 0..(Len(str) - Len(sub)) : SubSeq(str, i + 1, i + Len(sub)) = sub


\* hasAllModifiers that also refuses a modifier the accelerator does not name
hasAllModifiers_exact(target, modifierState) ==
  /\ target.ctrl = modifierState.ctrl
  /\ target.shift = modifierState.shift
  /\ target.alt = modifierState.alt
  /\ target.meta = modifierState.meta

hasAllModifiers(target, modifierState) ==
  /\ target.ctrl => modifierState.ctrl
  /\ target.shift => modifierState.shift
  /\ target.alt => modifierState.alt
  /\ target.meta => modifierState.meta

\* the listener with a key-up that counts only while the required modifiers
\* are tracked as down
keyListenerCallback_upNeedsModifiers(w, l, e) ==
  LET keyName == toLowerCase(e.name)
      down == e.state = "DOWN"
      m0 == l.modifierState
      m1 == IF keyName \in {<<"l","e","f","t"," ","c","t","r","l">>, <<"r","i","g","h","t"," ","c","t","r","l">>}
            THEN [m0 EXCEPT !.ctrl = down] ELSE m0
      m2 == IF keyName \in {<<"l","e","f","t"," ","s","h","i","f","t">>, <<"r","i","g","h","t"," ","s","h","i","f","t">>}
            THEN [m1 EXCEPT !.shift = down] ELSE m1
      m3 == IF keyName \in {<<"l","e","f","t"," ","a","l","t">>, <<"r","i","g","h","t"," ","a","l","t">>}
            THEN [m2 EXCEPT !.alt = down] ELSE m2
      m4 == IF keyName \in {<<"l","e","f","t"," ","m","e","t","a">>, <<"r","i","g","h","t"," ","m","e","t","a">>, S_command}
            THEN [m3 EXCEPT !.meta = down] ELSE m3
      w1 == [w EXCEPT !.keyListeners =
                        (@ \ {l}) \cup {[l EXCEPT !.modifierState = m4]}]
      keyMatch == keyName = l.target.key \/ includesString(keyName, l.target.key)
  IN IF keyMatch /\ e.state = "DOWN" /\ hasAllModifiers(l.target, m4)
     THEN Emit(IF ~w1.isPttActive
               THEN w_sendPttState([w1 EXCEPT !.isPttActive = TRUE], TRUE)
               ELSE w1,
               "handled", "globalKeyListener", l.id)
     ELSE IF keyMatch /\ e.state = "UP" /\ hasAllModifiers(l.target, m4)
     THEN Emit(IF w1.isPttActive
               THEN w_sendPttState([w1 EXCEPT !.isPttActive = FALSE], FALSE)
               ELSE w1,
               "handled", "globalKeyListener", l.id)
     ELSE w1

\* the listener registerGlobalKeyListener adds, for the live listener l and the
\* raw event e (name, state)
keyListenerCallback(w, l, e) ==
  LET keyName == toLowerCase(e.name)
      down == e.state = "DOWN"
      m0 == l.modifierState
      m1 == IF keyName \in {<<"l","e","f","t"," ","c","t","r","l">>, <<"r","i","g","h","t"," ","c","t","r","l">>}
            THEN [m0 EXCEPT !.ctrl = down] ELSE m0
      m2 == IF keyName \in {<<"l","e","f","t"," ","s","h","i","f","t">>, <<"r","i","g","h","t"," ","s","h","i","f","t">>}
            THEN [m1 EXCEPT !.shift = down] ELSE m1
      m3 == IF keyName \in {<<"l","e","f","t"," ","a","l","t">>, <<"r","i","g","h","t"," ","a","l","t">>}
            THEN [m2 EXCEPT !.alt = down] ELSE m2
      m4 == IF keyName \in {<<"l","e","f","t"," ","m","e","t","a">>, <<"r","i","g","h","t"," ","m","e","t","a">>, S_command}
            THEN [m3 EXCEPT !.meta = down] ELSE m3
      w1 == [w EXCEPT !.keyListeners =
                        (@ \ {l}) \cup {[l EXCEPT !.modifierState = m4]}]
      keyMatch == keyName = l.target.key \/ includesString(keyName, l.target.key)
  IN IF keyMatch /\ e.state = "DOWN" /\ hasAllModifiers(l.target, m4)
     THEN Emit(IF ~w1.isPttActive
               THEN w_sendPttState([w1 EXCEPT !.isPttActive = TRUE], TRUE)
               ELSE w1,
               "handled", "globalKeyListener", l.id)
     ELSE IF keyMatch /\ e.state = "UP"
     THEN Emit(IF w1.isPttActive
               THEN w_sendPttState([w1 EXCEPT !.isPttActive = FALSE], FALSE)
               ELSE w1,
               "handled", "globalKeyListener", l.id)
     ELSE w1

\* the payload of push-to-talk-manual: data && typeof data === "object" &&
\* "active" in data && typeof data.active === "boolean"
validManualData(data) ==
  data.truthy /\ data.type = "object" /\ data.hasActive /\ data.activeType = "boolean"

w_manualHandler(w, data) ==
  IF validManualData(data)
  THEN w_sendPttState([w EXCEPT !.isPttActive = data.active], data.active)
  ELSE w

\* initPushToTalk, up to the first await of the registerPushToTalkHotkey it calls
w_initPushToTalk(w, c, nativeSuccess) ==
  LET w1 == [w EXCEPT !.manualOn = TRUE]
  IN IF config.pushToTalk
     THEN w_registerPushToTalkHotkey(
            w_sendPttState([w1 EXCEPT !.isPttActive = FALSE], FALSE),
            c, nativeSuccess)
     ELSE w1

w_cleanupPushToTalk(w) == w_unregisterPushToTalkHotkey(w)

w_getPushToTalkState(w) == w.isPttActive

isWaylandWithoutPortal(w) == w.isWayland /\ ~w.portalAvailable


\* ------------------------------------------------- steps of src/src/native/window.ts
\* what the steps of window.ts leave alone in pushToTalk.ts
pstate ==
  <<isPttActive, registeredAccelerator, currentKeybind, keybindModifiers,
    holdModeTimeout, lastActivationTime, listenerOn, shortcuts, timers, manualOn,
    lastSent, activeSince, keyHold, boundMode>>

WRan(r, name, arg) ==
  /\ w_isPttActive' = r.isPttActive
  /\ w_registeredAccelerator' = r.registeredAccelerator
  /\ isWayland' = r.isWayland
  /\ portalAvailable' = r.portalAvailable
  /\ dbusBus' = r.dbusBus
  /\ dbusMessageHandler' = r.dbusMessageHandler
  /\ globalKeyListener' = r.globalKeyListener
  /\ keyListeners' = r.keyListeners
  /\ w_shortcuts' = r.shortcuts
  /\ busHandlers' = r.busHandlers
  /\ bindRequests' = r.bindRequests
  /\ w_manualOn' = r.manualOn
  /\ calls' = r.calls
  /\ trace' = IF name = NoHandler THEN <<>>
               ELSE <<Effect("call", name, arg)>> \o r.trace
  /\ UNCHANGED <<pstate, platform, waylandEnv, rvars>>

\* a handler of window.ts ran from WCur to r. Which keys are down matters to
\* live key listeners only, and is kept while there is one.
WCommit(result, name, arg) == \E r \in {result} :
  /\ WRan(r, name, arg)
  /\ IF r.keyListeners = {} THEN held' = {}
     ELSE IF keyListeners = {} THEN held' \in SUBSET PhysKeys
     ELSE held' = held

WInit ==
  /\ w_isPttActive = FALSE
  /\ w_registeredAccelerator = Null
  /\ isWayland = FALSE
  /\ portalAvailable = FALSE
  /\ dbusBus = FALSE
  /\ dbusMessageHandler = FALSE
  /\ globalKeyListener = NoListener
  /\ keyListeners = {}
  /\ w_shortcuts = {}
  /\ busHandlers = 0
  /\ bindRequests = {}
  /\ w_manualOn = FALSE
  /\ calls = [c \in 1..MaxCalls |-> Frame0]

\* pushToTalk.ts runs; window.ts stays as loaded
Init == PInit /\ WInit /\ RInit /\ platform = "linux" /\ waylandEnv = FALSE

Spec == Init /\ [][Next]_vars

\* pushToTalk.ts runs and its listener is handed every input
SpecInput == Init /\ [][NextInput]_vars

\* the hold emulation, where time passes and a timer that is due fires (the
\* event loop runs every setTimeout callback that was not cleared)
SpecHold ==
  Init /\ [][NextHold]_vars /\ WF_vars(TimerFire) /\ WF_vars(Tick)

Platforms == {"linux", "other"}

\* window.ts runs, on some platform and session type
InitW ==
  /\ PInit /\ WInit /\ RInit
  /\ platform \in Platforms
  /\ waylandEnv \in IF platform = "linux" THEN BOOLEAN ELSE {FALSE}

Idle == {c \in DOMAIN calls : calls[c].pc = "idle"}

\* the lowest free handle of a key listener
FreshListener ==
  CHOOSE id \in 1..(MaxListeners + 1) :
    /\ \A l \in keyListeners : l.id # id
    /\ \A other \in 1..(id - 1) : \E l \in keyListeners : l.id = other

W_InitPtt ==
  \E nativeSuccess \in BOOLEAN :
    /\ ~w_manualOn
    /\ LET c == CHOOSE c \in Idle : \A d \in Idle : c <= d
       IN WCommit(w_initPushToTalk(WCur, c, nativeSuccess), "initPushToTalk", c)
    /\ UNCHANGED <<config, windowAlive>>

\* the application calls registerPushToTalkHotkey; the call is number c
W_Register ==
  \E nativeSuccess \in BOOLEAN :
    /\ w_manualOn
    /\ Idle # {}
    /\ LET c == CHOOSE c \in Idle : \A d \in Idle : c <= d
       IN WCommit(w_registerPushToTalkHotkey(WCur, c, nativeSuccess),
                  "registerPushToTalkHotkey", c)
    /\ UNCHANGED <<config, windowAlive>>

\* await registerGlobalKeyListener(accelerator) settles for the call c
W_KeyListenerSettled ==
  \E c \in DOMAIN calls, created \in BOOLEAN, nativeSuccess \in BOOLEAN :
    /\ calls[c].pc = "import"
    /\ created => Cardinality(keyListeners) < MaxListeners
    /\ WCommit(afterKeyListener(WCur, c, created, FreshListener, nativeSuccess),
               "registerGlobalKeyListener", c)
    /\ UNCHANGED <<config, windowAlive>>

\* await checkPortalAvailability() settles for the call c
W_PortalChecked ==
  \E c \in DOMAIN calls, available \in BOOLEAN, bus \in BOOLEAN :
    /\ calls[c].pc = "checkPortalAvailability"
    /\ WCommit(afterPortalCheck(WCur, c, available, bus),
               "checkPortalAvailability", c)
    /\ UNCHANGED <<config, windowAlive>>

CreateSessionOutcomes == {"created", "ServiceUnknown", "error"}

\* the CreateSession request of the call c is answered
W_SessionCreated ==
  \E c \in DOMAIN calls, outcome \in CreateSessionOutcomes :
    /\ calls[c].pc = "CreateSession"
    /\ outcome = "created" => busHandlers < MaxHandlers
    /\ WCommit(afterCreateSession(WCur, c, outcome), "CreateSession", c)
    /\ UNCHANGED <<config, windowAlive>>

\* a BindShortcuts request is answered
W_BindDone ==
  \E accelerator \in bindRequests, err \in BOOLEAN :
    /\ WCommit(bindShortcutsCallback(WCur, accelerator, err),
               "BindShortcuts", err)
    /\ UNCHANGED <<config, windowAlive>>

\* the OS reports a registered accelerator
W_NativeTrigger ==
  /\ w_shortcuts # {}
  /\ WCommit(nativeHotkeyCallback(WCur), "globalShortcut", Null)
  /\ UNCHANGED <<config, windowAlive>>

RECURSIVE Deliver(_, _, _, _)
\* every handler attached to the bus gets the message
Deliver(w, n, member, shortcutId) ==
  IF n = 0 THEN w
  ELSE Deliver(portalMessageHandler(w, member, shortcutId), n - 1, member, shortcutId)

PortalMembers == {"Activated", "Deactivated", "Response"}
ShortcutIds == {"push-to-talk", "other"}

\* the portal signals on the bus
W_PortalSignal ==
  \E member \in PortalMembers, shortcutId \in ShortcutIds :
    /\ busHandlers > 0
    /\ WCommit(Deliver(WCur, busHandlers, member, shortcutId), "message", member)
    /\ UNCHANGED <<config, windowAlive>>

\* the name node-global-key-listener gives the key
GlobalKeyName(k) ==
  IF k = "Shift" THEN <<"L","E","F","T"," ","S","H","I","F","T">>
  ELSE <<"V">>

RECURSIVE Dispatch(_, _, _)
\* every live listener gets the event, in the order they were created
Dispatch(w, ids, e) ==
  IF ids = {} THEN w
  ELSE LET id == CHOOSE i \in ids : \A j \in ids : i <= j
           l == CHOOSE l \in w.keyListeners : l.id = id
       IN Dispatch(keyListenerCallback(w, l, e), ids \ {id}, e)

\* a key goes down (or repeats) or up, anywhere on the desktop
W_KeyEvent ==
  \E k \in PhysKeys, state \in {"DOWN", "UP"} :
    /\ keyListeners # {}
    /\ state = "UP" => k \in held
    /\ WRan(Dispatch(WCur, {l.id : l \in keyListeners},
                     [name |-> GlobalKeyName(k), state |-> state]),
            "globalKeyListener", state)
    /\ held' = IF state = "DOWN" THEN held \cup {k} ELSE held \ {k}
    /\ UNCHANGED <<config, windowAlive>>

W_Manual ==
  \E data \in ManualPayloads :
    /\ w_manualOn
    /\ windowAlive
    /\ WCommit(w_manualHandler(WCur, data), "push-to-talk-manual",
               IF validManualData(data) THEN <<data.active>> ELSE Null)
    /\ UNCHANGED <<config, windowAlive>>

W_Unregister ==
  /\ w_manualOn
  /\ WCommit(w_unregisterPushToTalkHotkey(WCur), "unregisterPushToTalkHotkey", Null)
  /\ UNCHANGED <<config, windowAlive>>

W_Cleanup ==
  /\ w_manualOn
  /\ WCommit(w_cleanupPushToTalk(WCur), "cleanupPushToTalk", Null)
  /\ UNCHANGED <<config, windowAlive>>

NextW ==
  \/ W_InitPtt \/ W_Register \/ W_KeyListenerSettled \/ W_PortalChecked
  \/ W_SessionCreated \/ W_BindDone \/ W_NativeTrigger \/ W_PortalSignal
  \/ W_KeyEvent \/ W_Manual \/ W_Unregister \/ W_Cleanup
  \/ SetConfig \/ DestroyWindow

SpecW == InitW /\ [][NextW]_vars

\* ------------------------------------------------- overlapping registrations
\* window.ts as loaded on linux under X11, with room for one more
\* registerPushToTalkHotkey call than SpecW has: a second call can start
\* while the first is suspended at its await
InitOverlap ==
  /\ PInit /\ RInit
  /\ w_isPttActive = FALSE
  /\ w_registeredAccelerator = Null
  /\ isWayland = FALSE
  /\ portalAvailable = FALSE
  /\ dbusBus = FALSE
  /\ dbusMessageHandler = FALSE
  /\ globalKeyListener = NoListener
  /\ keyListeners = {}
  /\ w_shortcuts = {}
  /\ busHandlers = 0
  /\ bindRequests = {}
  /\ w_manualOn = FALSE
  /\ calls = [c \in 1..(MaxCalls + 1) |-> Frame0]
  /\ platform = "linux"
  /\ waylandEnv = FALSE

NextOverlap ==
  \/ W_InitPtt \/ W_Register \/ W_KeyListenerSettled \/ W_KeyEvent
  \/ W_Unregister \/ SetConfig

SpecOverlap == InitOverlap /\ [][NextOverlap]_vars

\* ------------------------------------------------- parseAccelerator alone
\* the tokens accelerator strings are made of: modifier names in some letter
\* case, a name that is no modifier, a key, and the empty token (what stands
\* before a leading, between two adjacent, and after a trailing separator)
AccTokens ==
  { <<"C","t","r","l">>, <<"C","O","N","T","R","O","L">>,
    <<"S","h","i","f","t">>, <<"s","H","I","F","T">>,
    <<"A","l","t">>, <<"M","e","t","a">>, <<"c","m","d">>,
    <<"C","o","m","m","a","n","d">>,
    <<"F","n">>, <<"V">>, <<>> }

\* the tokens joined by the separators: toks[1] seps[1] toks[2] ...
RECURSIVE Join(_, _)
Join(toks, seps) ==
  IF Len(toks) = 1 THEN toks[1]
  ELSE toks[1] \o <<seps[1]>> \o Join(Tail(toks), Tail(seps))

\* parseAccelerator of pushToTalk.ts or of window.ts is handed a string (a
\* behaviour applies it to one string: it reads and writes no state)
Parse ==
  /\ trace = <<>>
  /\ \E n \in 1..MaxTokens :
    \E toks \in [1..n -> AccTokens], seps \in [1..(n - 1) -> {"+", "-"}],
       file \in {"pushToTalk.ts", "window.ts"} :
      /\ trace' = << Effect("call", "parseAccelerator",
                            [file |-> file, tokens |-> toks, separators |-> seps]),
                     Effect("return", "parseAccelerator",
                            IF file = "pushToTalk.ts"
                            THEN parseAccelerator(Join(toks, seps))
                            ELSE w_parseAccelerator(Join(toks, seps))) >>
      /\ UNCHANGED <<pstate, wvars, rvars, config, windowAlive, held>>

\* parseAccelerator is handed every string of up to MaxTokens tokens
SpecParse == Init /\ [][Parse]_vars

\* ------------------------------------------------- teardown that fails
\* unregisterPushToTalkHotkey where the call `thrower` throws when it is made.
\* kill and removeListener are called inside try/catch; globalShortcut.unregister
\* is not, so its exception leaves the function ("throw") at that point.
w_unregisterPushToTalkHotkeyThrows(w, thrower) ==
  LET w1 == IF w.globalKeyListener # NoListener
            THEN IF thrower = "kill"
                 THEN [Emit(w, "caught", "globalKeyListener", w.globalKeyListener)
                         EXCEPT !.globalKeyListener = NoListener]
                 ELSE [Emit(w, "kill", "globalKeyListener", w.globalKeyListener)
                         EXCEPT !.keyListeners = {l \in @ : l.id # w.globalKeyListener},
                                !.globalKeyListener = NoListener]
            ELSE w
      thrown == /\ thrower = "unregister"
                /\ w1.registeredAccelerator # Null
                /\ ~w1.isWayland \/ ~w1.portalAvailable
      w2 == IF w1.registeredAccelerator # Null
            THEN LET u == IF ~w1.isWayland \/ ~w1.portalAvailable
                          THEN Emit([w1 EXCEPT !.shortcuts =
                                                 @ \ {w1.registeredAccelerator}],
                                    "unregister", "globalShortcut",
                                    w1.registeredAccelerator)
                          ELSE w1
                 IN w_sendPttState([u EXCEPT !.registeredAccelerator = Null,
                                             !.isPttActive = FALSE], FALSE)
            ELSE w1
      w3 == IF w2.dbusBus /\ w2.dbusMessageHandler
            THEN IF thrower = "removeListener"
                 THEN [Emit(w2, "caught", "dbus", Null)
                         EXCEPT !.dbusBus = FALSE,
                                !.dbusMessageHandler = FALSE]
                 ELSE [Emit(w2, "removeListener", "dbus", Null)
                         EXCEPT !.busHandlers = IF @ > 0 THEN @ - 1 ELSE 0,
                                !.dbusBus = FALSE,
                                !.dbusMessageHandler = FALSE]
            ELSE w2
  IN IF thrown
     THEN Emit(w1, "throw", "globalShortcut", w1.registeredAccelerator)
     ELSE [w3 EXCEPT !.isWayland = FALSE, !.portalAvailable = FALSE]

\* the application calls unregisterPushToTalkHotkey and one of the releases
\* it makes throws
W_UnregisterFault ==
  \E thrower \in {"kill", "unregister", "removeListener"} :
    /\ w_manualOn
    /\ CASE thrower = "kill" -> globalKeyListener # NoListener
         [] thrower = "unregister" -> /\ w_registeredAccelerator # Null
                                      /\ ~isWayland \/ ~portalAvailable
         [] thrower = "removeListener" -> dbusBus /\ dbusMessageHandler
    /\ WCommit(w_unregisterPushToTalkHotkeyThrows(WCur, thrower),
               "unregisterPushToTalkHotkey", thrower)
    /\ UNCHANGED <<config, windowAlive>>

NextFault ==
  \/ W_InitPtt \/ W_Register \/ W_KeyListenerSettled \/ W_PortalChecked
  \/ W_SessionCreated \/ W_BindDone \/ W_NativeTrigger \/ W_PortalSignal
  \/ W_Unregister \/ W_UnregisterFault

\* window.ts runs and a release of a resource can throw
SpecFault == InitW /\ [][NextFault]_vars

\* ------------------------------------------------- the key listener alone
\* the name node-global-key-listener gives a key, the right shift key included
RawKeyName(k) ==
  IF k = "ShiftRight" THEN <<"R","I","G","H","T"," ","S","H","I","F","T">>
  ELSE GlobalKeyName(k)

\* a physical key goes down (or repeats) or up; every live listener is told
W_RawKey ==
  \E k \in PhysKeys \cup {"ShiftRight"}, state \in {"DOWN", "UP"} :
    /\ keyListeners # {}
    /\ state = "UP" => k \in held
    /\ WRan(Dispatch(WCur, {l.id : l \in keyListeners},
                     [name |-> RawKeyName(k), state |-> state]),
            "globalKeyListener", [key |-> k, state |-> state])
    /\ held' = IF state = "DOWN" THEN held \cup {k} ELSE held \ {k}
    /\ UNCHANGED <<config, windowAlive>>

NextKeys ==
  \/ W_InitPtt \/ W_Register \/ W_KeyListenerSettled \/ W_RawKey
  \/ W_Unregister

\* window.ts runs with its key listener fed both shift keys
SpecKeys == InitW /\ [][NextKeys]_vars

\* ------------------------------------- pushToTalk.ts and the renderer's bridge
\* a handler of the main process ran from Cur to r: what it handed to
\* webContents.send is on its way to the renderer, in the order it was sent
M_Handle(result, name, arg) == \E r \in {result} :
  /\ CommitP(r, name, arg)
  /\ toRenderer' = toRenderer \o SentStates(r.trace)
  /\ Len(toRenderer') <= MaxInFlight
  /\ UNCHANGED <<wvars, currentPttState, stateChangeCallbacks>>

M_InitPtt ==
  \E success \in BOOLEAN :
    /\ ~manualOn
    /\ M_Handle(initPushToTalk(Cur, success), "initPushToTalk", success)
    /\ UNCHANGED <<config, windowAlive, held, toMain>>

\* a key goes down (or repeats) or up; webContents hands it to the listener
M_Input ==
  \E k \in PhysKeys, type \in {"keyDown", "keyUp"} :
    /\ windowAlive
    /\ type = "keyUp" => k \in held
    /\ held' = IF type = "keyDown" THEN held \cup {k} ELSE held \ {k}
    /\ IF listenerOn
       THEN M_Handle(handleBeforeInputEvent(Cur, InputOf(k, type, held')),
                     "handleBeforeInputEvent", type)
       ELSE M_Handle(Cur, NoHandler, Null)
    /\ UNCHANGED <<config, windowAlive, toMain>>

M_GlobalTrigger ==
  /\ shortcuts # {}
  /\ M_Handle(globalHotkeyCallback(Cur), "globalHotkey", Null)
  /\ UNCHANGED <<config, windowAlive, held, toMain>>

M_TimerFire ==
  \E t \in timers :
    /\ t.due <= now
    /\ LET s == [Cur EXCEPT !.timers = @ \ {t}]
       IN M_Handle(IF t.kind = "rearm" THEN holdTimeoutCallback(s)
                   ELSE extendedTimeoutCallback(s),
                   "timeout", t.kind)
    /\ UNCHANGED <<config, windowAlive, held, toMain>>

\* ipcMain hands the oldest push-to-talk-manual message to the handler
M_Manual ==
  /\ toMain # <<>>
  /\ manualOn
  /\ M_Handle(manualHandler(Cur, [active |-> Head(toMain)]),
              "push-to-talk-manual", Head(toMain))
  /\ toMain' = Tail(toMain)
  /\ UNCHANGED <<config, windowAlive, held>>

M_Register ==
  \E success \in BOOLEAN :
    /\ manualOn
    /\ M_Handle(registerPushToTalkHotkey(Cur, success),
                "registerPushToTalkHotkey", success)
    /\ UNCHANGED <<config, windowAlive, held, toMain>>

M_Unregister ==
  /\ manualOn
  /\ M_Handle(unregisterPushToTalkHotkey(Cur), "unregisterPushToTalkHotkey", Null)
  /\ UNCHANGED <<config, windowAlive, held, toMain>>

\* ipcRenderer.on("push-to-talk"): the oldest message reaches the renderer.
\* The effect "forEach" records which callbacks were called.
R_Message ==
  /\ toRenderer # <<>>
  /\ LET active == Head(toRenderer)
     IN IF currentPttState # active
        THEN /\ currentPttState' = active
             /\ stateChangeCallbacks' =
                  {[cb EXCEPT !.last = active] : cb \in stateChangeCallbacks}
             /\ trace' = << Effect("call", "push-to-talk", active),
                            Effect("forEach", "stateChangeCallbacks",
                                   {cb.id : cb \in stateChangeCallbacks}) >>
        ELSE /\ UNCHANGED <<currentPttState, stateChangeCallbacks>>
             /\ trace' = <<Effect("call", "push-to-talk", active)>>
  /\ toRenderer' = Tail(toRenderer)
  /\ UNCHANGED <<pstate, wvars, config, windowAlive, held, toMain>>

\* setManualState that leaves the subscribed callbacks uncalled
R_SetManualState_quiet ==
  \E active \in BOOLEAN :
    /\ manualOn
    /\ windowAlive
    /\ Len(toMain) < MaxInFlight
    /\ toMain' = Append(toMain, active)
    /\ currentPttState' = active
    /\ trace' = <<Effect("call", "setManualState", active)>>
    /\ UNCHANGED <<pstate, wvars, config, windowAlive, held, toRenderer,
                   stateChangeCallbacks>>

\* the page calls setManualState(active), once the main process listens
R_SetManualState ==
  \E active \in BOOLEAN :
    /\ manualOn
    /\ windowAlive
    /\ Len(toMain) < MaxInFlight
    /\ toMain' = Append(toMain, active)
    /\ currentPttState' = active
    /\ stateChangeCallbacks' =
         {[cb EXCEPT !.last = active] : cb \in stateChangeCallbacks}
    /\ trace' = << Effect("call", "setManualState", active),
                   Effect("forEach", "stateChangeCallbacks",
                          {cb.id : cb \in stateChangeCallbacks}) >>
    /\ UNCHANGED <<pstate, wvars, config, windowAlive, held, toRenderer>>

\* the page calls onStateChange(callback); a Set holds a callback once
R_OnStateChange ==
  \E id \in 1..MaxCallbacks :
    /\ stateChangeCallbacks' =
         {cb \in stateChangeCallbacks : cb.id # id}
         \cup {[id |-> id, last |-> currentPttState]}
    /\ trace' = << Effect("call", "onStateChange", id),
                   Effect("callback", id, currentPttState) >>
    /\ UNCHANGED <<pstate, wvars, config, windowAlive, held,
                   currentPttState, toRenderer, toMain>>

\* the page calls offStateChange(callback)
R_OffStateChange ==
  \E id \in 1..MaxCallbacks :
    /\ stateChangeCallbacks' = {cb \in stateChangeCallbacks : cb.id # id}
    /\ trace' = <<Effect("call", "offStateChange", id)>>
    /\ UNCHANGED <<pstate, wvars, config, windowAlive, held,
                   currentPttState, toRenderer, toMain>>

NextR ==
  \/ M_InitPtt \/ M_Input \/ M_GlobalTrigger \/ M_TimerFire \/ M_Manual
  \/ M_Register \/ M_Unregister \/ Tick
  \/ R_Message \/ R_SetManualState

\* pushToTalk.ts in the main process and the bridge in the renderer, with the
\* two IPC channels between them
SpecR == Init /\ [][NextR]_vars

NextBridge ==
  \/ M_InitPtt \/ M_Input \/ M_Manual
  \/ R_Message \/ R_SetManualState \/ R_OnStateChange \/ R_OffStateChange

\* the bridge with the page subscribing and unsubscribing callbacks, and the
\* listener and the manual handler of the main process as what talks to it
SpecBridge == Init /\ [][NextBridge]_vars

\* ======================================================================
\* Properties of src/src/native/pushToTalk.ts, under Spec
\* ======================================================================
\* the handler the last step ran, and the stage it was called with
Called(tr, name) == tr # <<>> /\ tr[1].op = "call" /\ tr[1].ch = name

CalledUnregister(tr) ==
  Called(tr, "unregisterPushToTalkHotkey") \/ Called(tr, "cleanupPushToTalk")

CalledRegister(tr) ==
  Called(tr, "registerPushToTalkHotkey") \/ Called(tr, "initPushToTalk")

\* no two neighbours of a sequence are equal
Alternates(seq) == \A i \in 1..(Len(seq) - 1) : seq[i] # seq[i + 1]

\* C1: with the window alive, a "push-to-talk" event is sent exactly once per
\* flip of isPttActive: starting from the inactive state the renderer assumes,
\* every event a handler sends differs from the event sent before it, and after
\* every handler the last value sent is the value of isPttActive.
C1_OncePerFlip ==
  [][windowAlive' =>
       /\ Alternates(<<lastSent>> \o SentStates(trace'))
       /\ lastSent' = isPttActive']_vars

\* the position of the first effect op on ch of a trace, past its end if none
FirstPosition(tr, op, ch) ==
  IF Positions(tr, op, ch) = {} THEN Len(tr) + 1
  ELSE CHOOSE i \in Positions(tr, op, ch) : \A j \in Positions(tr, op, ch) : i <= j

\* the releases unregisterPushToTalkHotkey makes
FirstRelease(tr) ==
  LET a == FirstPosition(tr, "off", "before-input-event")
      b == FirstPosition(tr, "unregister", "globalShortcut")
      c == FirstPosition(tr, "unregisterAll", "globalShortcut")
  IN IF a <= b /\ a <= c THEN a ELSE IF b <= c THEN b ELSE c

\* C2: when unregisterPushToTalkHotkey (or cleanupPushToTalk) returns,
\* isPttActive is false; if PTT was active at the call, exactly one
\* {active:false} state change was emitted during the call (and sent to the
\* renderer, the window being alive), before the before-input-event listener
\* and the global shortcut were released; if it was not active, none was.
C2_TeardownDeactivatesFirst ==
  [][CalledUnregister(trace') =>
       /\ ~isPttActive'
       /\ EmittedStates(trace') = IF isPttActive THEN <<FALSE>> ELSE <<>>
       /\ SentStates(trace') = IF isPttActive /\ windowAlive THEN <<FALSE>> ELSE <<>>
       /\ isPttActive =>
            FirstPosition(trace', "sendPttState", "push-to-talk") < FirstRelease(trace')
       /\ ~listenerOn' \/ ~windowAlive
       /\ shortcuts' = {}]_vars

\* PTT was active with the listener attached and the shortcut registered when
\* unregisterPushToTalkHotkey was called: one {active:false}, then the releases
C2_Witness ==
  /\ CalledUnregister(trace)
  /\ SentStates(trace) = <<FALSE>>
  /\ Positions(trace, "off", "before-input-event") # {}
  /\ Positions(trace, "unregister", "globalShortcut") # {}

HasModifier(m) == m.ctrl \/ m.shift \/ m.alt \/ m.meta

\* C3: in hold mode with an accelerator that has a modifier, once PTT was
\* activated by a matching key-down and the key-up events of the modifier and
\* of the key have both been delivered to handleBeforeInputEvent, in either
\* order (no key is held any more), isPttActive is false.
C3_NotStuckOn ==
  (keyHold /\ HasModifier(keybindModifiers) /\ held = {}) => ~isPttActive

\* C4: in hold mode, a hold timer that fires never emits {active:false} before
\* MIN_HOLD_DURATION_MS have passed since isPttActive turned true, whichever
\* path turned it true.
C4_TimerHonoursMinimumHold ==
  [][(/\ Called(trace', "timeout")
      /\ config.pushToTalkMode = "hold"
      /\ EmittedStates(trace') # <<>>)
     => now - activeSince >= MIN_HOLD_DURATION_MS]_vars

\* C5: accelerator "Shift+V", hold mode: the key-down with shift held emits
\* {active:true}; the key-up of "v" 300ms later emits no {active:false} at
\* that moment (the hold is extended to the 600ms minimum).
C5_KeyUpExtendsHold ==
  [][(/\ Called(trace', "handleBeforeInputEvent")
      /\ trace'[1].arg = "keyUp"
      /\ config.pushToTalkMode = "hold"
      /\ currentKeybind = parseAccelerator(AccShiftV).key
      /\ keybindModifiers = [NoModifiers EXCEPT !.shift = TRUE]
      /\ keyHold
      /\ now - activeSince = 300)
     => EmittedStates(trace') = <<>>]_vars

\* C6: activatePtt called twice in a row, from any state, emits exactly one
\* {active:true} state change if PTT was inactive before the first call and
\* none if it was active (each one is sent to the renderer when the window is
\* alive); isPttActive is true afterwards.
C6_ActivateIdempotent ==
  LET twice == activatePtt(activatePtt(Cur))
  IN /\ twice.isPttActive
     /\ EmittedStates(twice.trace) = IF isPttActive THEN <<>> ELSE <<TRUE>>
     /\ windowAlive => SentStates(twice.trace) = EmittedStates(twice.trace)
     /\ activatePtt(activatePtt(Cur)) = activatePtt(Cur)

\* a key repeat: handleBeforeInputEvent called activatePtt for a matching
\* key-down in hold mode while PTT was already active from the key-down before
C6_Witness ==
  /\ Called(trace, "handleBeforeInputEvent")
  /\ trace[1].arg = "keyDown"
  /\ config.pushToTalkMode = "hold"
  /\ Positions(trace, "preventDefault", "before-input-event") # {}
  /\ EmittedStates(trace) = <<>>
  /\ keyHold
  /\ isPttActive

\* C7: deactivatePtt called while PTT is inactive emits and sends nothing and
\* leaves isPttActive false; called while PTT is active it emits exactly one
\* {active:false} (sent to the renderer when the window is alive) and
\* isPttActive is false.
C7_DeactivateNoOpWhenInactive ==
  LET after == deactivatePtt(Cur)
  IN /\ ~after.isPttActive
     /\ EmittedStates(after.trace) = IF isPttActive THEN <<FALSE>> ELSE <<>>
     /\ windowAlive => SentStates(after.trace) = EmittedStates(after.trace)
     /\ ~isPttActive => SentStates(after.trace) = <<>>

\* handleBeforeInputEvent called deactivatePtt for a matching key-up in hold
\* mode while PTT was inactive: nothing was sent
C7_Witness ==
  /\ Called(trace, "handleBeforeInputEvent")
  /\ trace[1].arg = "keyUp"
  /\ config.pushToTalkMode = "hold"
  /\ Positions(trace, "preventDefault", "before-input-event") # {}
  /\ EmittedStates(trace) = <<>>
  /\ ~isPttActive

\* C8: at most one input strategy is bound: the before-input-event listener
\* and an Electron global shortcut are never installed at the same time.
C8_OneStrategyBound == ~(listenerOn /\ shortcuts # {})

\* what registerPushToTalkHotkey may change
Registration ==
  <<isPttActive, registeredAccelerator, currentKeybind, keybindModifiers,
    holdModeTimeout, lastActivationTime, listenerOn, shortcuts, timers>>

\* C10: registerPushToTalkHotkey called again with the same accelerator and
\* mode right after a registration completed (whether or not its global
\* shortcut was registered) tears nothing down, binds nothing, changes no
\* state and sends no event.
C10_ReRegistrationNoOp ==
  [][(/\ CalledRegister(trace)
      /\ config.pushToTalk
      /\ Called(trace', "registerPushToTalkHotkey"))
     => /\ UNCHANGED Registration
        /\ Len(trace') = 1]_vars

\* the accelerator is the one registerPushToTalkHotkey last bound
BoundTo(accelerator) ==
  LET parsed == parseAccelerator(accelerator)
  IN /\ boundMode # "none"
     /\ currentKeybind = parsed.key
     /\ keybindModifiers = [ctrl |-> parsed.ctrl, shift |-> parsed.shift,
                            alt |-> parsed.alt, meta |-> parsed.meta]

\* C11: registerPushToTalkHotkey called with the accelerator that is bound but
\* with the other mode (hold <-> toggle) tears the binding down and binds it
\* under the new mode; if PTT was active, isPttActive is false and
\* {active:false} was emitted when the call returns.
C11_ModeSwitchTearsDown ==
  [][(/\ Called(trace', "registerPushToTalkHotkey")
      /\ config.pushToTalk
      /\ BoundTo(AcceleratorOf(config))
      /\ boundMode # config.pushToTalkMode)
     => /\ Positions(trace', "unregisterAll", "globalShortcut") # {}
        /\ boundMode' = config.pushToTalkMode
        /\ isPttActive => /\ ~isPttActive'
                          /\ EmittedStates(trace') # <<>>
                          /\ EmittedStates(trace')[1] = FALSE]_vars


\* C12: registerPushToTalkHotkey called with config.pushToTalk false leaves the
\* module unregistered (registeredAccelerator null, handleBeforeInputEvent off
\* the window's webContents, no global shortcut, no pending hold timer) and PTT
\* inactive; {active:false} is emitted iff PTT was active (and sent to the
\* renderer iff, besides, the window is not destroyed).
C12_DisabledEndsUnregistered ==
  [][(Called(trace', "registerPushToTalkHotkey") /\ ~config.pushToTalk)
     => /\ registeredAccelerator' = Null
        /\ ~listenerOn' \/ ~windowAlive
        /\ shortcuts' = {}
        /\ timers' = {}
        /\ holdModeTimeout' = NullTimeout
        /\ ~isPttActive'
        /\ EmittedStates(trace') = IF isPttActive THEN <<FALSE>> ELSE <<>>
        /\ SentStates(trace') = IF isPttActive /\ windowAlive THEN <<FALSE>> ELSE <<>>
    ]_vars

\* push-to-talk was switched off in the configuration while PTT was active and
\* the accelerator registered: the call deactivated and unregistered
C12_Witness ==
  /\ Called(trace, "registerPushToTalkHotkey")
  /\ ~config.pushToTalk
  /\ SentStates(trace) = <<FALSE>>
  /\ Positions(trace, "unregister", "globalShortcut") # {}
  /\ Positions(trace, "off", "before-input-event") # {}


\* the inputs webContents can hand to the listener for the modelled keys
KeyInputs(type) ==
  {InputOf(k, type, h) : k \in PhysKeys, h \in SUBSET PhysKeys}

\* the state a handler left, as the next handler finds it
Settled(s) == [s EXCEPT !.trace = <<>>]

\* C13: in toggle mode, with the listener attached to a live window, two
\* consecutive matching key-down events with no key-up in between flip PTT
\* twice (to the opposite value and back), each flip sends one "push-to-talk"
\* event carrying the new value; a key-up event changes nothing and sends
\* nothing.
C13_ToggleFlipsOnEveryKeyDown ==
  (config.pushToTalkMode = "toggle" /\ listenerOn /\ windowAlive)
  => /\ \A input \in KeyInputs("keyDown") :
          matchesKeybind(Cur, input)
          => LET s1 == handleBeforeInputEvent(Cur, input)
                 s2 == handleBeforeInputEvent(Settled(s1), input)
             IN /\ s1.isPttActive = ~isPttActive
                /\ SentStates(s1.trace) = <<~isPttActive>>
                /\ EmittedStates(s1.trace) = <<~isPttActive>>
                /\ s2.isPttActive = isPttActive
                /\ SentStates(s2.trace) = <<isPttActive>>
                /\ EmittedStates(s2.trace) = <<isPttActive>>
     /\ \A input \in KeyInputs("keyUp") :
          handleBeforeInputEvent(Cur, input) = Cur

\* the listener has just handled a matching key-down in toggle mode that
\* switched an active PTT off
C13_Witness ==
  /\ config.pushToTalkMode = "toggle"
  /\ Called(trace, "handleBeforeInputEvent")
  /\ trace[1].arg = "keyDown"
  /\ Positions(trace, "preventDefault", "before-input-event") # {}
  /\ SentStates(trace) = <<FALSE>>
  /\ ~isPttActive


\* the four modifier flags of an input, under the names of keybindModifiers
ModifiersOf(input) ==
  [ctrl |-> input.control, shift |-> input.shift,
   alt |-> input.alt, meta |-> input.meta]

\* C14 (under SpecInput): matchesKeybind accepts an input only when its key is
\* the key of the parsed accelerator (compared in lower case) and its four
\* modifier flags equal the accelerator's; when an input with an extra or a
\* missing modifier is handed to handleBeforeInputEvent, matchesKeybind is
\* false and the handler has no effect and changes nothing of the module.
C14_ExactModifierMatch ==
  [][Called(trace', "handleBeforeInputEvent")
     => LET input == trace'[1].arg IN
        /\ matchesKeybind(Cur, input)
           <=> /\ toLowerCase(input.key) = currentKeybind
               /\ ModifiersOf(input) = keybindModifiers
        /\ ModifiersOf(input) # keybindModifiers
           => /\ ~matchesKeybind(Cur, input)
              /\ Len(trace') = 1
              /\ UNCHANGED <<isPttActive, registeredAccelerator, currentKeybind,
                             keybindModifiers, holdModeTimeout,
                             lastActivationTime, listenerOn, shortcuts, timers,
                             manualOn>>
    ]_vars

\* the key of the keybind v arrived with ctrl down, which the keybind does not
\* have: the listener was called and did nothing, PTT stays off
C14_Witness ==
  /\ Called(trace, "handleBeforeInputEvent")
  /\ Len(trace) = 1
  /\ trace[1].arg.key = <<"v">>
  /\ trace[1].arg.type = "keyDown"
  /\ trace[1].arg.control
  /\ ModifiersOf(trace[1].arg) # keybindModifiers
  /\ currentKeybind = <<"v">>
  /\ keybindModifiers = NoModifiers
  /\ ~isPttActive

\* C16: a push-to-talk-manual {active: a} leaves the module as activatePtt
\* (a true) or deactivatePtt (a false) would have left it: the same
\* isPttActive, the same calls of sendPttState (none when a is the current
\* state) and the same pending hold timer.
C16_ManualLikeStrategyEdge ==
  [][Called(trace', "push-to-talk-manual")
     => LET a == trace'[1].arg
            edge == IF a THEN activatePtt(Cur) ELSE deactivatePtt(Cur)
        IN /\ isPttActive' = edge.isPttActive
           /\ EmittedStates(trace') = EmittedStates(edge.trace)
           /\ holdModeTimeout' = edge.holdModeTimeout
           /\ timers' = edge.timers
    ]_vars

\* the payload of a push-to-talk-manual is {active: boolean}
WellFormed(data) ==
  data.truthy /\ data.type = "object" /\ data.hasActive /\ data.activeType = "boolean"

\* C17 (under SpecInput): a push-to-talk-manual whose payload is null, not an
\* object, without "active" or with a non-boolean "active" is dropped: the
\* handler throws nothing, assigns nothing to isPttActive (which stays the
\* boolean it was) and does not call sendPttState.
C17_MalformedManualDropped ==
  [][(Called(trace', "push-to-talk-manual") /\ ~WellFormed(trace'[1].arg))
     => /\ Positions(trace', "throw", "push-to-talk-manual") = {}
        /\ Positions(trace', "assign", "isPttActive") = {}
        /\ isPttActive' = isPttActive
        /\ EmittedStates(trace') = <<>>
        /\ SentStates(trace') = <<>>
    ]_vars

\* the webContents.send calls of a trace
Sends(tr) == {i \in 1..Len(tr) : tr[i].op = "send"}

\* C18: no handler, whatever triggered it (key event, global shortcut, timer,
\* manual override, register, unregister, cleanup), calls webContents.send on
\* "push-to-talk" or "push-to-talk-local" while the main window or its
\* webContents is destroyed.
C18_NoSendToDestroyedWindow ==
  Sends(trace) # {} => windowAlive

\* with the window destroyed a handler called sendPttState, and nothing was
\* sent
C18_Witness ==
  /\ ~windowAlive
  /\ EmittedStates(trace) # <<>>
  /\ Sends(trace) = {}

\* C19: handleBeforeInputEvent never calls event.preventDefault(): a key event
\* that matches the PTT keybind is left to the page, which can type the key.
C19_MatchingKeyNotConsumed ==
  [][Called(trace', "handleBeforeInputEvent")
     => Positions(trace', "preventDefault", "before-input-event") = {}]_vars

\* C20: in a state unregisterPushToTalkHotkey has just left, a second call
\* calls sendPttState not at all and leaves isPttActive, registeredAccelerator,
\* the hold timer, the listener registration and the registered shortcuts as
\* the first call left them.
C20_TeardownIdempotent ==
  CalledUnregister(trace)
  => LET again == unregisterPushToTalkHotkey(Cur)
     IN /\ EmittedStates(again.trace) = <<>>
        /\ SentStates(again.trace) = <<>>
        /\ Positions(again.trace, "unregister", "globalShortcut") = {}
        /\ again.isPttActive = isPttActive
        /\ again.registeredAccelerator = registeredAccelerator
        /\ again.holdModeTimeout = holdModeTimeout
        /\ again.timers = timers
        /\ again.listenerOn = listenerOn
        /\ again.shortcuts = shortcuts

\* the first call had everything to do: PTT was active, the shortcut
\* registered and the window alive; it left PTT inactive and nothing registered
C20_Witness ==
  /\ CalledUnregister(trace)
  /\ EmittedStates(trace) = <<FALSE>>
  /\ Positions(trace, "unregister", "globalShortcut") # {}
  /\ windowAlive
  /\ ~isPttActive /\ registeredAccelerator = Null /\ ~listenerOn
  /\ timers = {} /\ shortcuts = {}

\* C21: in hold mode a trigger of the global shortcut leaves PTT active, calls
\* sendPttState(true) when PTT was inactive and nothing when it was active, and
\* leaves exactly one timer pending, the re-arm timer due
\* GLOBAL_HOLD_TIMEOUT_MS after this trigger: whatever deadline was pending is
\* gone, so no timer deactivates before 400ms have passed without a trigger.
C21_RetriggerResetsDeadline ==
  [][(Called(trace', "globalHotkey") /\ config.pushToTalkMode = "hold")
     => /\ isPttActive'
        /\ EmittedStates(trace') = IF isPttActive THEN <<>> ELSE <<TRUE>>
        /\ holdModeTimeout' = Timer("rearm", now + GLOBAL_HOLD_TIMEOUT_MS)
        /\ timers' = {holdModeTimeout'}
    ]_vars

\* a re-trigger: the shortcut fired while PTT had been active for some time,
\* nothing was emitted and the deadline is 400ms away again
C21_Witness ==
  /\ Called(trace, "globalHotkey")
  /\ config.pushToTalkMode = "hold"
  /\ EmittedStates(trace) = <<>>
  /\ isPttActive
  /\ activeSince < now
  /\ timers = {Timer("rearm", now + GLOBAL_HOLD_TIMEOUT_MS)}

\* a trigger of the global shortcut has just activated PTT in hold mode
TriggerActivated ==
  /\ Called(trace, "globalHotkey")
  /\ config.pushToTalkMode = "hold"
  /\ isPttActive
  /\ EmittedStates(trace) = <<TRUE>>

\* a hold timer has just deactivated PTT with one {active:false}
TimedOut ==
  /\ Called(trace, "timeout")
  /\ ~isPttActive
  /\ EmittedStates(trace) = <<FALSE>>

\* a further trigger, a key event at the listener or a manual override has
\* just arrived
Interrupted ==
  \/ Called(trace, "globalHotkey") /\ EmittedStates(trace) # <<TRUE>>
  \/ Called(trace, "handleBeforeInputEvent")
  \/ Called(trace, "push-to-talk-manual")

\* C22 (under SpecHold, where pending timers fire): once a trigger of the
\* global shortcut has activated PTT in hold mode, either a further trigger,
\* key event or manual override arrives or a hold timer deactivates PTT with
\* one {active:false}; and the extension timer, when it expires, leaves PTT
\* inactive with no timer pending, having called sendPttState(false) iff PTT
\* was active.
C22_HoldEventuallyReleases ==
  /\ TriggerActivated ~> (TimedOut \/ Interrupted)
  /\ [][(Called(trace', "timeout") /\ trace'[1].arg = "extended")
        => /\ ~isPttActive'
           /\ EmittedStates(trace') = IF isPttActive THEN <<FALSE>> ELSE <<>>
           /\ holdModeTimeout' = NullTimeout
           /\ timers' = {}]_vars

\* the extension timer expired and deactivated PTT
C22_Witness ==
  /\ Called(trace, "timeout")
  /\ trace[1].arg = "extended"
  /\ config.pushToTalkMode = "hold"
  /\ ~isPttActive
  /\ SentStates(trace) = <<FALSE>>

\* C23: in every reachable state at most one hold timer is pending, and it is
\* the one holdModeTimeout refers to.
C23_AtMostOneTimer ==
  /\ Cardinality(timers) <= 1
  /\ timers \subseteq {holdModeTimeout}

\* the re-arm timer has just fired on a hold that was too short and scheduled
\* the extension: one timer is pending, the extension
C23_Witness ==
  /\ Called(trace, "timeout")
  /\ trace[1].arg = "rearm"
  /\ isPttActive
  /\ holdModeTimeout.kind = "extended"
  /\ timers = {holdModeTimeout}

\* C24: when unregisterPushToTalkHotkey (or cleanupPushToTalk) returns, no
\* hold timer is pending and holdModeTimeout is null, whether or not PTT was
\* active at the call; and every step that ends without a registered global
\* shortcut ends with no hold timer pending, so none can fire against a
\* torn-down registration.
C24_TeardownCancelsTimer ==
  [][/\ CalledUnregister(trace')
        => (timers' = {} /\ holdModeTimeout' = NullTimeout)
     /\ shortcuts' = {}
        => (timers' = {} /\ holdModeTimeout' = NullTimeout)]_vars

\* unregisterPushToTalkHotkey ran while PTT was inactive and the shortcut
\* registered: nothing was emitted and no timer is left
C24_Witness ==
  /\ CalledUnregister(trace)
  /\ EmittedStates(trace) = <<>>
  /\ Positions(trace, "unregister", "globalShortcut") # {}
  /\ timers = {}
  /\ holdModeTimeout = NullTimeout

\* C25 (under SpecInput): an input that does not match the keybind, by its
\* key or by a modifier flag, goes through handleBeforeInputEvent untouched in
\* hold mode and in toggle mode: no preventDefault, no call of sendPttState,
\* no effect at all, and isPttActive, the hold timer and the rest of the
\* module unchanged.
C25_NonMatchingPassesThrough ==
  [][(Called(trace', "handleBeforeInputEvent")
      /\ ~matchesKeybind(Cur, trace'[1].arg))
     => /\ Len(trace') = 1
        /\ UNCHANGED <<isPttActive, registeredAccelerator, currentKeybind,
                       keybindModifiers, holdModeTimeout, lastActivationTime,
                       listenerOn, shortcuts, timers, manualOn>>
    ]_vars

\* the keybind is Shift+V and the Shift key itself went down: the flags are
\* those of the keybind, the key is not, and the listener did nothing
C25_Witness ==
  /\ Called(trace, "handleBeforeInputEvent")
  /\ Len(trace) = 1
  /\ trace[1].arg.key = KeyShift
  /\ ModifiersOf(trace[1].arg) = keybindModifiers
  /\ keybindModifiers.shift
  /\ currentKeybind = <<"v">>
  /\ config.pushToTalkMode = "toggle"

\* the step's handler consumed its event, once and before anything else
Consumed(tr) ==
  /\ Positions(tr, "preventDefault", "before-input-event") = {2}

Returned(tr) == Args(tr, "return", "registerPushToTalkHotkey")

Outcomes(f, strategy) ==
  {f.attempts[i].outcome : i \in {j \in DOMAIN f.attempts :
                                     f.attempts[j].strategy = strategy}}

\* the key listener failed, native registration failed, and the portal was not
\* there: no Wayland session, or the availability check said no, or
\* CreateSession answered ServiceUnknown
AllStrategiesFailed(f) ==
  /\ Outcomes(f, "listener") = {"failed"}
  /\ Outcomes(f, "native") = {"failed"}
  /\ Outcomes(f, "portal") \subseteq {"unavailable", "ServiceUnknown"}

\* nothing global is bound
OnlyLocalEngaged ==
  /\ globalKeyListener = NoListener
  /\ keyListeners = {}
  /\ w_shortcuts = {}
  /\ busHandlers = 0

\* C9: a registerPushToTalkHotkey call of window.ts in which the key listener
\* failed, globalShortcut.register failed and the portal was unavailable returns
\* with no global strategy bound and with the local fallback as its last and
\* only engaged strategy; during the call sendLocalKeybind ran exactly once,
\* with the accelerator the call read from the configuration, and it sent
\* "push-to-talk-local" (once, with that accelerator) if the window exists.
C9_FallbackToLocal ==
  [][\A i \in DOMAIN trace' :
       (trace'[i].op = "return" /\ AllStrategiesFailed(trace'[i].arg)) =>
         LET f == trace'[i].arg
             delivered == IF windowAlive THEN <<f.accelerator>> ELSE <<>>
         IN /\ f.attempts[Len(f.attempts)].strategy = "local"
            /\ Outcomes(f, "local") = {"engaged"}
            /\ f.local = <<f.accelerator>>
            /\ f.sent = delivered
            /\ Args(trace', "send", "push-to-talk-local") = delivered
            /\ CalledRegister(trace') => f.accelerator = AcceleratorOf(config)
            /\ OnlyLocalEngaged'
    ]_vars

C9_Witness ==
  /\ windowAlive
  /\ \E f \in {Returned(trace)[i] : i \in DOMAIN Returned(trace)} :
       /\ AllStrategiesFailed(f)
       /\ "unavailable" \in Outcomes(f, "portal")
  /\ Args(trace, "send", "push-to-talk-local") # <<>>
  /\ OnlyLocalEngaged

\* every value of a listener's modifierState
ModifierStates == [ctrl : BOOLEAN, shift : BOOLEAN, alt : BOOLEAN, meta : BOOLEAN]

\* C15 (under SpecW): for every live key listener and every tracked modifier
\* state that has all the modifiers of its accelerator down, other modifiers
\* being down or not, a DOWN event of the target key leaves PTT active, calls
\* sendPttState(true) exactly when PTT was inactive, and is reported handled.
C15_HookToleratesExtraModifiers ==
  LET w == WCur IN
  \A l \in keyListeners : \A m \in ModifierStates :
    (\A f \in {"ctrl", "shift", "alt", "meta"} : l.target[f] => m[f])
    => LET l1 == [l EXCEPT !.modifierState = m]
           w1 == [w EXCEPT !.keyListeners = (@ \ {l}) \cup {l1}]
           r == keyListenerCallback(w1, l1, [name |-> <<"V">>, state |-> "DOWN"])
       IN /\ r.isPttActive
          /\ EmittedStates(r.trace) = IF w_isPttActive THEN <<>> ELSE <<TRUE>>
          /\ Positions(r.trace, "handled", "globalKeyListener") # {}

\* V went down while Shift was tracked as held, for a listener whose
\* accelerator is the plain key V: PTT was switched on
C15_Witness ==
  /\ Called(trace, "globalKeyListener")
  /\ trace[1].arg = "DOWN"
  /\ SentStates(trace) = <<TRUE>>
  /\ w_isPttActive
  /\ \E l \in keyListeners :
       /\ l.target.key = <<"v">>
       /\ ~l.target.shift
       /\ l.modifierState.shift

\* the outcomes after which registerPushToTalkHotkey goes on to the next strategy
FailedOutcomes == {"failed", "unavailable", "ServiceUnknown", "error"}

\* the attempts of a call follow the priority order and stop at the first
\* that did not fail
ChainInOrder(f) ==
  \A i \in DOMAIN f.attempts :
    LET a == f.attempts[i]
        before == IF i = 1 THEN [strategy |-> "none", outcome |-> "failed"]
                  ELSE f.attempts[i - 1]
    IN /\ before.outcome \in FailedOutcomes
       /\ a.strategy = "listener" => i = 1
       /\ a.strategy = "native" => before.strategy \in {"none", "listener"}
       /\ a.strategy = "portal"
          => /\ before.strategy = "native"
             /\ waylandEnv /\ platform = "linux"
       /\ a.strategy = "local"
          => \/ before.strategy = "native" /\ ~(waylandEnv /\ platform = "linux")
             \/ /\ before.strategy = "portal"
                /\ before.outcome \in {"unavailable", "ServiceUnknown"}

\* the frames of the calls that are running or have just returned
Frames(cs, tr) ==
  {cs[c] : c \in DOMAIN cs} \cup {Returned(tr)[i] : i \in DOMAIN Returned(tr)}

\* the steps that run a part of a registerPushToTalkHotkey call; the call's
\* number is the argument of the step
CallSteps ==
  {"initPushToTalk", "registerPushToTalkHotkey", "registerGlobalKeyListener",
   "checkPortalAvailability", "CreateSession"}

\* the step ran a part of the call c
StepOf(tr, c) ==
  /\ tr # <<>>
  /\ tr[1].op = "call"
  /\ tr[1].ch \in CallSteps
  /\ tr[1].arg = c

\* the frame of the call c after a step that ran a part of it: the running
\* frame, or the frame it returned
StepFrames(cs, tr, c) ==
  IF StepOf(tr, c)
  THEN {cs[c]} \cup {Returned(tr)[i] : i \in DOMAIN Returned(tr)}
  ELSE {}

\* C27 (under SpecW): the strategies of a registerPushToTalkHotkey call are
\* attempted in priority order and the chain stops at the first success. The
\* key listener is gone for only by a call that finds hold mode on linux, and
\* such a call tries nothing else before it; native registration is attempted
\* first or after the listener failed; the portal only after native
\* registration failed in a Wayland session; the local fallback only after
\* native registration failed outside Wayland or the portal was found
\* unavailable.
C27_PriorityChain ==
  [][/\ \A f \in Frames(calls', trace') : ChainInOrder(f)
     /\ \A c \in DOMAIN calls :
          /\ (calls[c].pc # "import" /\ calls'[c].pc = "import")
             => /\ config.pushToTalkMode = "hold" /\ platform = "linux"
                /\ calls'[c].attempts = <<>>
          /\ (calls[c].attempts = <<>>
              /\ \E f \in StepFrames(calls', trace', c) :
                   Outcomes(f, "listener") # {})
             => calls[c].pc = "import"
          /\ (calls[c].pc = "idle" /\ config.pushToTalkMode = "hold"
              /\ platform = "linux")
             => \A f \in StepFrames(calls', trace', c) : f.attempts = <<>>
    ]_vars

\* a call returned after the key listener failed and native registration
\* succeeded: two attempts, in that order, and nothing after the success
C27_Witness ==
  \E i \in DOMAIN Returned(trace) :
    /\ Len(Returned(trace)[i].attempts) = 2
    /\ Returned(trace)[i].attempts[1] = [strategy |-> "listener", outcome |-> "failed"]
    /\ Returned(trace)[i].attempts[2] = [strategy |-> "native", outcome |-> "registered"]
    /\ w_shortcuts # {}

\* C28 (under SpecW): when the import or the constructor of the key listener
\* throws, registerGlobalKeyListener returns false to its caller with nothing
\* changed (registeredAccelerator and isPttActive as they were, no listener),
\* and registerPushToTalkHotkey goes on to native registration in the same
\* turn: registeredAccelerator is set only if that registration succeeds.
C28_HookFailureFallsThrough ==
  [][\A c \in DOMAIN calls :
       (calls[c].pc = "import" /\ Called(trace', "registerGlobalKeyListener")
        /\ trace'[1].arg = c
        /\ \E f \in StepFrames(calls', trace', c) : Outcomes(f, "listener") = {"failed"})
       => /\ registerGlobalKeyListener(WCur, c, FALSE, FreshListener) = WCur
          /\ w_isPttActive' = w_isPttActive
          /\ globalKeyListener' = globalKeyListener
          /\ keyListeners' = keyListeners
          /\ Positions(trace', "new", "globalKeyListener") = {}
          /\ \A f \in StepFrames(calls', trace', c) :
               Outcomes(f, "listener") = {"failed"} =>
               /\ Len(f.attempts) >= 2
               /\ f.attempts[2].strategy = "native"
               /\ w_registeredAccelerator' =
                    IF f.attempts[2].outcome = "registered"
                    THEN f.accelerator ELSE w_registeredAccelerator
    ]_vars

\* the key listener failed, native registration failed too, and the call is
\* waiting for the portal check with nothing registered
C28_Witness ==
  /\ Called(trace, "registerGlobalKeyListener")
  /\ \E c \in DOMAIN calls :
       /\ calls[c].pc = "checkPortalAvailability"
       /\ calls[c].attempts = <<[strategy |-> "listener", outcome |-> "failed"],
                                [strategy |-> "native", outcome |-> "failed"]>>
  /\ w_registeredAccelerator = Null
  /\ keyListeners = {}

\* C29 (under SpecW): a portal negotiation error is met once per call and
\* answered by the local fallback: a call whose portal attempt ended in an
\* error other than ServiceUnknown made one portal attempt and returns with
\* registerLocalHotkey run once for its accelerator, and a failing
\* BindShortcuts reply runs sendLocalKeybind; "push-to-talk-local" is sent
\* with the accelerator if the window exists.
C29_NegotiationErrorFallsBack ==
  [][/\ \A i \in DOMAIN trace' :
          (/\ Called(trace', "CreateSession")
           /\ trace'[i].op = "return"
           /\ "error" \in Outcomes(trace'[i].arg, "portal"))
          => LET f == trace'[i].arg
             IN /\ Cardinality({j \in DOMAIN f.attempts :
                                  f.attempts[j].strategy = "portal"}) = 1
                /\ Outcomes(f, "local") = {"engaged"}
                /\ f.local = <<f.accelerator>>
                /\ windowAlive => Args(trace', "send", "push-to-talk-local")
                                    = <<f.accelerator>>
     /\ (Called(trace', "BindShortcuts") /\ trace'[1].arg = TRUE)
        => /\ Len(Args(trace', "sendLocalKeybind", "push-to-talk-local")) = 1
           /\ windowAlive => Len(Args(trace', "send", "push-to-talk-local")) = 1
    ]_vars

\* C30 (under SpecW): a portal signal that is delivered while no accelerator
\* is bound (registeredAccelerator is null: BindShortcuts has not succeeded
\* yet, has failed, or the hotkey was unregistered) is ignored: isPttActive is
\* unchanged and sendPttState is not called.
C30_SignalsOutsideBoundIgnored ==
  [][(Called(trace', "message") /\ w_registeredAccelerator = Null)
     => /\ w_isPttActive' = w_isPttActive
        /\ EmittedStates(trace') = <<>>
        /\ SentStates(trace') = <<>>
    ]_vars

\* ======================================================================
\* Properties of the key listener of src/src/native/window.ts, under SpecKeys
\* ======================================================================

\* the tracked flags of the listener l say what is down among the keys `down`
InSync(l, down) ==
  /\ l.modifierState.shift = (down \cap {"Shift", "ShiftRight"} # {})
  /\ ~l.modifierState.ctrl /\ ~l.modifierState.alt /\ ~l.modifierState.meta

\* C31 (under SpecKeys): the tracked modifier flags of a key listener stay in
\* sync with the physical keys, left and right taken together: when the flags
\* of every live listener say which modifiers are down, they still do after
\* the next key event (shift is tracked as down iff the left or the right
\* shift key is down).
C31_ModifierStateInSync ==
  [][(/\ Called(trace', "globalKeyListener")
      /\ \A l \in keyListeners : InSync(l, held))
     => \A l \in keyListeners' : InSync(l, held')
    ]_vars

\* ======================================================================
\* Properties of the teardown of src/src/native/window.ts, under SpecFault
\* ======================================================================

\* C32 (under SpecFault): a release that throws during
\* unregisterPushToTalkHotkey is caught locally and does not abort the
\* sequence: the function returns normally (no exception leaves it) and,
\* apart from the resource whose release threw, it ends as the unregister
\* without the failure ends: PTT inactive, registeredAccelerator null, the
\* listener handle and the bus handle cleared, the other resources released.
C32_TeardownFailureIsLocal ==
  [][\A thrower \in {"kill", "unregister", "removeListener"} :
       (Called(trace', "unregisterPushToTalkHotkey") /\ trace'[1].arg = thrower)
       => LET done == w_unregisterPushToTalkHotkey(WCur)
          IN /\ Positions(trace', "throw", "globalShortcut") = {}
             /\ w_isPttActive' = done.isPttActive
             /\ w_registeredAccelerator' = done.registeredAccelerator
             /\ globalKeyListener' = done.globalKeyListener
             /\ dbusBus' = done.dbusBus
             /\ dbusMessageHandler' = done.dbusMessageHandler
             /\ isWayland' = done.isWayland
             /\ portalAvailable' = done.portalAvailable
             /\ thrower # "kill" => keyListeners' = done.keyListeners
             /\ thrower # "unregister" => w_shortcuts' = done.shortcuts
             /\ thrower # "removeListener" => busHandlers' = done.busHandlers
    ]_vars

\* ======================================================================
\* Properties of parseAccelerator, under SpecParse
\* ======================================================================

\* some token before the last one is, in lower case, one of `names`
Names(toks, names) ==
  \E i \in 1..(Len(toks) - 1) : toLowerCase(toks[i]) \in names

\* C33 (under SpecParse): for a string made of non-empty tokens joined by "+"
\* or "-", parseAccelerator returns the lower-cased last token as key and sets
\* ctrl, shift, alt, meta exactly when a token before the last is one of that
\* modifier's names, whatever the order and the letter case of those tokens;
\* tokens that are no modifier names are dropped.
C33_ParseAccelerator ==
  Called(trace, "parseAccelerator")
  => LET toks == trace[1].arg.tokens
         parsed == trace[2].arg
     IN (\A i \in DOMAIN toks : toks[i] # <<>>)
        => /\ parsed.key = toLowerCase(toks[Len(toks)])
           /\ parsed.ctrl = Names(toks, {S_ctrl, S_control})
           /\ parsed.shift = Names(toks, {S_shift})
           /\ parsed.alt = Names(toks, {S_alt})
           /\ parsed.meta = Names(toks, {S_meta, S_cmd, S_command})

\* the names parseAccelerator takes for modifiers
ModifierNames == {S_ctrl, S_control, S_shift, S_alt, S_meta, S_cmd, S_command}

\* C34 (under SpecParse): the key of every accelerator parseAccelerator of
\* pushToTalk.ts returns is one non-empty token that is no modifier name,
\* for every input string that starts with a token, those that end in a
\* separator and those made of modifier names only included.
C34_KeyIsOneNonModifierToken ==
  (/\ Called(trace, "parseAccelerator")
   /\ trace[1].arg.file = "pushToTalk.ts"
   /\ trace[1].arg.tokens[1] # <<>>)
  => LET key == trace[2].arg.key
     IN /\ key # <<>>
        /\ key \notin ModifierNames
        /\ \A i \in DOMAIN key : key[i] \notin {"+", "-"}

\* ======================================================================
\* Further properties of src/src/native/pushToTalk.ts, under Spec
\* ======================================================================

\* C35 (under Spec): in toggle mode one physical press of the bound key flips
\* PTT once, with one event, also when the press reaches both the
\* before-input-event listener and the global shortcut: when the listener has
\* just flipped PTT on a key-down and the global shortcut's callback is run
\* next for the same press, the callback flips nothing and sends nothing.
C35_TogglePressFlipsOnce ==
  [][(/\ config.pushToTalkMode = "toggle"
      /\ Called(trace, "handleBeforeInputEvent")
      /\ trace[1].arg = "keyDown"
      /\ EmittedStates(trace) # <<>>
      /\ Called(trace', "globalHotkey"))
     => /\ isPttActive' = isPttActive
        /\ EmittedStates(trace') = <<>>
    ]_vars

\* ======================================================================
\* Further properties of src/src/native/window.ts, under SpecW
\* ======================================================================

\* C36 (under SpecW): whatever turned PTT on (a portal signal before
\* BindShortcuts completed, the manual override with nothing bound, the local
\* fallback), once unregisterPushToTalkHotkey has returned getPushToTalkState()
\* is false, and if PTT was active the call reported {active:false} last.
C36_UnregisterEndsInactive ==
  [][Called(trace', "unregisterPushToTalkHotkey")
     => /\ ~w_getPushToTalkState([WCur EXCEPT !.isPttActive = w_isPttActive'])
        /\ w_isPttActive
           => /\ EmittedStates(trace') # <<>>
              /\ EmittedStates(trace')[Len(EmittedStates(trace'))] = FALSE
    ]_vars

\* ======================================================================
\* Properties of overlapping registrations in window.ts, under SpecOverlap
\* ======================================================================

\* C37 (under SpecOverlap): once every registerPushToTalkHotkey call has
\* completed, overlapping calls included, at most one key listener is alive
\* and every live listener is the one globalKeyListener refers to (the one
\* unregisterPushToTalkHotkey kills), so no listener of a superseded call is
\* left to deliver events.
C37_OneLiveListener ==
  (\A c \in DOMAIN calls : calls[c].pc = "idle")
  => /\ Cardinality(keyListeners) <= 1
     /\ \A l \in keyListeners : l.id = globalKeyListener

\* ======================================================================
\* Further properties of the key listener of window.ts, under SpecKeys
\* ======================================================================

ShiftKeys == {"Shift", "ShiftRight"}

\* C38 (under SpecKeys): a key-up of the target key deactivates PTT whatever
\* modifiers are down at that moment (PTT is inactive afterwards, {active:false}
\* is reported iff it was active, and the event is consumed); a key-down of
\* the target key while a required modifier is not down changes nothing and
\* is not consumed.
C38_ReleaseAlwaysDeactivates ==
  [][(Called(trace', "globalKeyListener") /\ trace'[1].arg.key = "V")
     => /\ trace'[1].arg.state = "UP"
           => /\ ~w_isPttActive'
              /\ EmittedStates(trace') = IF w_isPttActive THEN <<FALSE>> ELSE <<>>
              /\ Positions(trace', "handled", "globalKeyListener") # {}
        /\ (/\ trace'[1].arg.state = "DOWN"
            /\ \A l \in keyListeners : l.target.shift /\ held' \cap ShiftKeys = {})
           => /\ w_isPttActive' = w_isPttActive
              /\ w_registeredAccelerator' = w_registeredAccelerator
              /\ keyListeners' = keyListeners
              /\ Len(trace') = 1
    ]_vars

\* PTT was turned on with Shift+V, shift was released first, and the release
\* of V has just turned PTT off and was consumed
C38_Witness ==
  /\ Called(trace, "globalKeyListener")
  /\ trace[1].arg = [key |-> "V", state |-> "UP"]
  /\ EmittedStates(trace) = <<FALSE>>
  /\ Positions(trace, "handled", "globalKeyListener") # {}
  /\ held = {}
  /\ \E l \in keyListeners : l.target.shift /\ ~l.modifierState.shift
  /\ ~w_isPttActive

\* ======================================================================
\* Properties of pushToTalk.ts together with src/src/world/pushToTalk.ts,
\* under SpecR
\* ======================================================================

\* no message is on its way on either channel
Quiet == toRenderer = <<>> /\ toMain = <<>>

\* C39 (under SpecR): with the window alive and both channels in order,
\* however setManualState calls of the renderer interleave with key events,
\* triggers, timeouts and (un)registrations of the main process, once no
\* message is on its way the renderer's currentPttState is the main process's
\* isPttActive.
C39_RendererConverges ==
  (windowAlive /\ Quiet) => currentPttState = isPttActive

\* the renderer held {active:true} from a key-down while the main process took
\* a setManualState(false): with the key still down, the report of that
\* change has just reached the renderer and turned it off, and nothing is on
\* its way
C39_Witness ==
  /\ Quiet
  /\ trace = << Effect("call", "push-to-talk", FALSE),
                Effect("forEach", "stateChangeCallbacks", {}) >>
  /\ ~currentPttState /\ ~isPttActive
  /\ "V" \in held
  /\ listenerOn /\ config.pushToTalkMode = "hold"
  /\ config.pushToTalkKeybind = AccV
  \* no global shortcut and no timer: only the manual message turned PTT off
  /\ shortcuts = {} /\ timers = {}

\* ======================================================================
\* Properties of src/src/world/pushToTalk.ts, under SpecBridge
\* ======================================================================

\* C40 (under SpecBridge): after every operation of the bridge (onStateChange,
\* offStateChange, an incoming "push-to-talk" message, setManualState) every
\* subscribed callback was last called with currentPttState; a callback that
\* subscribes is called at once with the current state, and an incoming
\* message that carries the current state calls no callback.
C40_CallbacksHoldCurrentState ==
  [][/\ \A cb \in stateChangeCallbacks' : cb.last = currentPttState'
     /\ Called(trace', "onStateChange")
        => /\ trace'[2] = Effect("callback", trace'[1].arg, currentPttState)
           /\ \E cb \in stateChangeCallbacks' : cb.id = trace'[1].arg
     /\ (Called(trace', "push-to-talk") /\ trace'[1].arg = currentPttState)
        => /\ Len(trace') = 1
           /\ UNCHANGED <<currentPttState, stateChangeCallbacks>>
     /\ (Called(trace', "push-to-talk") /\ trace'[1].arg # currentPttState)
        => trace'[2] = Effect("forEach", "stateChangeCallbacks",
                              {cb.id : cb \in stateChangeCallbacks})
    ]_vars

\* two callbacks are subscribed, and a message from the main process has just
\* turned the renderer's state on and called both of them
C40_Witness ==
  /\ Called(trace, "push-to-talk")
  /\ trace[1].arg = TRUE
  /\ Len(trace) = 2
  /\ trace[2].arg = 1..MaxCallbacks
  /\ currentPttState
  /\ \A id \in 1..MaxCallbacks :
       [id |-> id, last |-> TRUE] \in stateChangeCallbacks

====
